---------------------------- MODULE Spec2Model ----------------------------
(***************************************************************************)
(* Resumable workflow engine of seisflows (workflow/forward.py): the task  *)
(* list, the state file ("ledger") and the run loop with its checkpoints.  *)
(*                                                                         *)
(* The state file is a sequence of lines.  A line is a triple              *)
(*   <<"hdr", text, "">>    a line that starts with "#"                    *)
(*   <<"rec", key, digits>> a line "key:digits", digits as written         *)
(* Every line ends with a newline, as the lines setup() and checkpoint()    *)
(* write do, and every line that does not start with "#" has the form      *)
(* "key:digits".                                                           *)
(* The in-memory dict `_states` is a sequence of <<key, value>> pairs in   *)
(* insertion order, the order Python iterates a dict in.                   *)
(* The variables log, start and written are history variables: no action   *)
(* reads them in a guard or to compute the program's state.                *)
(***************************************************************************)
EXTENDS Integers, Sequences, FiniteSets, TLC

(* ------------------------------ bounds -------------------------------- *)
NTasks == 3
MaxInitLines == 2

\* units of work (sources) the dispatcher runs a step sequence for
NUnits == 2

\* how many kernel names a configuration lists at most
MaxKernels == 2

\* the iterations of a source-encoded inversion
MaxIter == 3

(* --------------------------- configuration ---------------------------- *)
None == "None"

\* the status codes of the state file
Pending == 0
Complete == 1
Failed == -1

TaskNames == <<"A", "B", "C", "D", "E">>

\* self.task_list: the ordered names of the steps; every workflow variant
\* overrides the property, the run loop only iterates it and reads __name__
task_list == SubSeq(TaskNames, 1, NTasks)

Tasks == {task_list[k] : k \in 1..Len(task_list)}

\* a name found in a state file that no step of this workflow has
UnknownNames == {"X"}

HeaderTexts == {"# h1", "# h2"}

\* spellings of a status that int() accepts
ValTexts == {"-1", "0", "1", "+1"}

\* int(val.strip())
IntOf(text) ==
    CASE text = "-1" -> -1
      [] text = "0"  -> 0
      [] text = "1"  -> 1
      [] text = "+1" -> 1

\* mutant: the sign of the status is not written
StrOf_Unsigned(val) ==
    CASE val = -1 -> "1"
      [] val = 0  -> "0"
      [] val = 1  -> "1"

\* f"{val}"
StrOf(val) ==
    CASE val = -1 -> "-1"
      [] val = 0  -> "0"
      [] val = 1  -> "1"

HdrLine(text) == <<"hdr", text, "">>
RecLine(key, digits) == <<"rec", key, digits>>

\* the names a state file found at the start has records for
InitNames == {task_list[1], task_list[2]} \cup UnknownNames

InitLineSet ==
    {HdrLine(t) : t \in HeaderTexts}
        \cup {RecLine(k, d) : k \in InitNames, d \in ValTexts}

\* state files that may lie at path.state_file before the first engine is built
InitFiles == UNION {[1..m -> InitLineSet] : m \in 0..MaxInitLines}

(* ------------------------------- state -------------------------------- *)
VARIABLES
    stop_after,   \* self.stop_after
    file_exists,  \* os.path.exists(self.path.state_file)
    file_lines,   \* the lines of the state file
    states,       \* self._states
    pc,           \* where the controlling process is
    i,            \* 1-based position of `func` in the for loop of run()
    n,            \* the local n of run()
    err,          \* what run() raised
    log,          \* history: what this run() call did, in order
    start,        \* history: the ledger when this run() call began
    written,      \* history: the file is as a checkpoint() left it
    modules,      \* self._modules: what each role holds
    generate_data,\* self.generate_data
    model_true,   \* self.path.model_true: None, or a path and whether it exists
    dirs,         \* the directories of self.path exist
    checked,      \* history: what the latest check() call did, and its end
    set_up,       \* history: what the latest setup() call did, and its end
    submit,       \* the system.run() call of the step in progress
    obs,          \* per unit: the files in traces/obs of the unit's solver directory
    data,         \* per unit: path.data/<source_name> has files
    kernels,      \* NoiseInversion: self.kernels, a string as its characters
    _force,       \* NoiseInversion: self._force
    _cmpnt,       \* NoiseInversion: self._cmpnt
    npc,          \* NoiseInversion: where the controlling process is
    ni,           \* NoiseInversion: 1-based position in the loop of run()
    sub,          \* NoiseInversion: position in the body of the step
    nstates,      \* NoiseInversion: self._states, as saved after every step
    seen,         \* history: the lists self.task_list has returned
    passes,       \* history: the passes of the step, with their context
    syn,          \* per unit: the synthetics in traces/syn_e and traces/syn_n
    adj,          \* per unit: the pairs whose symlinks lie in traces/adj
    wrote,        \* history: the files the units of this pass have written
    did,          \* history: what evaluate_objective_function did, per unit
    se            \* the source-encoded inversion: its parameters and calls

vars == <<stop_after, file_exists, file_lines, states, pc, i, n, err, log,
          start, written, modules, generate_data, model_true, dirs, checked,
          set_up, submit, obs, data, kernels, _force, _cmpnt, npc, ni, sub,
          nstates, seen, passes, syn, adj, wrote, did, se>>

\* the state of a noise-inversion engine
noise == <<kernels, _force, _cmpnt, npc, ni, sub, nstates, seen, passes>>

\* the configuration of the engine: what __init__ is given
config == <<stop_after, modules, generate_data>>

\* the scratch directories of the units of a noise-inversion engine, and
\* the source-encoded inversion
scratch == <<syn, adj, wrote, did, se>>

\* what check() and setup() leave behind; run() and checkpoint() touch none
prepared == <<model_true, dirs, checked, set_up>>

\* the dispatcher call of a step and the data of the units
dispatch == <<submit, obs, data>>

(* --------------------------- dict operations -------------------------- *)
Has(st, key) == \E k \in 1..Len(st) : st[k][1] = key

Get(st, key) == st[CHOOSE k \in 1..Len(st) : st[k][1] = key][2]

\* st[key] = val: an existing key keeps its place, a new key goes last
Put(st, key, val) ==
    IF Has(st, key)
    THEN [k \in 1..Len(st) |-> IF st[k][1] = key THEN <<key, val>> ELSE st[k]]
    ELSE Append(st, <<key, val>>)

(* ----------------------------- __init__ ------------------------------- *)
\* mutant: the dict starts empty, only the names the file has get an item
InitStates_Empty == <<>>

\* {task.__name__: 0 for task in self.task_list}
InitStates == [k \in 1..Len(task_list) |-> <<task_list[k], Pending>>]

\* mutant: the existing state file is not read
LoadLines_Unread(lines, st) == st

RECURSIVE LoadLines(_, _)
\* the for loop over readlines(): header lines are skipped, every other line
\* is split at ":" and assigned
LoadLines(lines, st) ==
    IF lines = <<>> THEN st
    ELSE LET line == Head(lines)
         IN  LoadLines(Tail(lines),
                       IF line[1] = "hdr" THEN st
                       ELSE Put(st, line[2], IntOf(line[3])))

\* non-header lines that are not "name: integer": an empty line, a line
\* without ":", a line with two ":", a line whose value is not an integer
BadShapes == {"blank", "no colon", "two colons", "not an integer"}

BadLine(shape) == <<"bad", shape, "">>

\* len(line.strip().split(":"))
Fields(line) ==
    CASE line[1] = "rec" -> 2
      [] line[1] = "bad" /\ line[2] \in {"blank", "no colon"} -> 1
      [] line[1] = "bad" /\ line[2] = "two colons" -> 3
      [] line[1] = "bad" /\ line[2] = "not an integer" -> 2

\* int(val.strip()) returns
IsIntText(line) == line[1] = "rec" /\ line[3] \in ValTexts

\* the unpacking of the split or int() raises ValueError on the line
Unparsable(line) ==
    /\ line[1] # "hdr"
    /\ Fields(line) # 2 \/ ~IsIntText(line)

\* __init__ raises while it reads the state file
LoadFails(exists, lines) ==
    exists /\ \E k \in 1..Len(lines) : Unparsable(lines[k])

LoadStates(exists, lines) ==
    IF exists THEN LoadLines(lines, InitStates) ELSE InitStates

(* ----------------------------- checkpoint ----------------------------- *)
IsHeader(line) == line[1] = "hdr"

RecordLines(st) == [k \in 1..Len(st) |-> RecLine(st[k][1], StrOf(st[k][2]))]

\* mutant: only the steps of the task list are written back
checkpoint_known(lines, st) ==
    SelectSeq(lines, IsHeader)
        \o RecordLines(SelectSeq(st, LAMBDA item : item[1] \in Tasks))

\* mutant: the "#" lines are not written back
checkpoint_headless(lines, st) == RecordLines(st)

\* mutant: the file is opened for appending
checkpoint_appended(lines, st) == lines \o RecordLines(st)

\* mutant: the new content never reaches the file
checkpoint_unsaved(lines, st) == lines

\* the content checkpoint() leaves in the file: the "#" lines of the old
\* content, then one line per item of _states
checkpoint(lines, st) == SelectSeq(lines, IsHeader) \o RecordLines(st)

\* the header setup() writes into a new state file
SetupHeader ==
    << HdrLine("# SeisFlows State File"),
       HdrLine("# asctime"),
       HdrLine("#'1: complete', '0: pending', '-1: failed'"),
       HdrLine("# ========================================") >>

(* ------------------------- reading the file --------------------------- *)
\* the last record of the name in the lines gives it the status val
Recorded(lines, key, val) ==
    \E k \in 1..Len(lines) :
        /\ lines[k][1] = "rec" /\ lines[k][2] = key
        /\ IntOf(lines[k][3]) = val
        /\ \A m \in (k + 1)..Len(lines) :
             ~(lines[m][1] = "rec" /\ lines[m][2] = key)

Named(lines, key) ==
    \E k \in 1..Len(lines) : lines[k][1] = "rec" /\ lines[k][2] = key

\* a reader of the state file finds the status val recorded for the name
FileSays(key, val) == file_exists /\ Recorded(file_lines, key, val)

Range(s) == {s[k] : k \in 1..Len(s)}

Called == SelectSeq(log, LAMBDA e : e[1] = "call")
Executed == [k \in 1..Len(Called) |-> Called[k][2]]

NoStart == [states |-> <<>>, exists |-> FALSE, lines |-> <<>>,
            written |-> FALSE, first |-> FALSE]

(* ------------------------- check() and setup() ------------------------ *)
required_modules == <<"system", "solver">>
optional_modules == <<"preprocess">>
Roles == Range(required_modules) \cup Range(optional_modules)

\* a role is unset, or holds a module whose check() returns ("ok") or
\* raises ("bad")
ModuleKinds == {"unset", "ok", "bad"}

NoCall == [calls |-> <<>>, result |-> "none"]

\* mutant: an unset required role is passed over
RECURSIVE CheckRequired_Unasserted(_, _)
CheckRequired_Unasserted(roles, calls) ==
    IF roles = <<>> THEN [calls |-> calls, result |-> "ok"]
    ELSE LET req_mod == Head(roles)
             called == Append(calls, <<"check", req_mod>>)
         IN  IF modules[req_mod] = "unset"
             THEN CheckRequired_Unasserted(Tail(roles), calls)
             ELSE IF modules[req_mod] = "bad"
             THEN [calls |-> called, result |-> "ModuleError"]
             ELSE CheckRequired_Unasserted(Tail(roles), called)

RECURSIVE CheckRequired(_, _)
\* for req_mod in self._required_modules: the assertion that the role is
\* set, then the module's own check()
CheckRequired(roles, calls) ==
    IF roles = <<>> THEN [calls |-> calls, result |-> "ok"]
    ELSE LET req_mod == Head(roles)
             called == Append(calls, <<"check", req_mod>>)
         IN  IF modules[req_mod] = "unset"
             THEN [calls |-> calls, result |-> "AssertionError"]
             ELSE IF modules[req_mod] = "bad"
             THEN [calls |-> called, result |-> "ModuleError"]
             ELSE CheckRequired(Tail(roles), called)

\* mutant: an unset optional role fails the check
RECURSIVE CheckOptional_Asserted(_, _)
CheckOptional_Asserted(roles, calls) ==
    IF roles = <<>> THEN [calls |-> calls, result |-> "ok"]
    ELSE LET opt_mod == Head(roles)
             called == Append(calls, <<"check", opt_mod>>)
         IN  IF modules[opt_mod] = "unset"
             THEN [calls |-> calls, result |-> "AssertionError"]
             ELSE IF modules[opt_mod] = "bad"
             THEN [calls |-> called, result |-> "ModuleError"]
             ELSE CheckOptional_Asserted(Tail(roles), called)

RECURSIVE CheckOptional(_, _)
\* for opt_mod in self._optional_modules: the module's own check() when the
\* role is set, a warning when it is not
CheckOptional(roles, calls) ==
    IF roles = <<>> THEN [calls |-> calls, result |-> "ok"]
    ELSE LET opt_mod == Head(roles)
             called == Append(calls, <<"check", opt_mod>>)
         IN  IF modules[opt_mod] = "unset"
             THEN CheckOptional(Tail(roles),
                                Append(calls, <<"warning", opt_mod>>))
             ELSE IF modules[opt_mod] = "bad"
             THEN [calls |-> called, result |-> "ModuleError"]
             ELSE CheckOptional(Tail(roles), called)

\* mutant: a path that is set is enough
ModelTrueReady_IfSet == model_true # "None"

\* self.path.model_true is not None and os.path.exists(self.path.model_true)
ModelTrueReady == model_true = "exists"

\* mutant: any name is accepted
StopAfterKnown_Always == TRUE

\* self.stop_after in [task.__name__ for task in self.task_list]
StopAfterKnown == stop_after \in Range(task_list)

\* what check() calls, in order, and how it ends
check ==
    LET req == CheckRequired(required_modules, <<>>)
        opt == CheckOptional(optional_modules, req.calls)
        failed == [calls |-> opt.calls, result |-> "AssertionError"]
    IN  IF req.result # "ok" THEN req
        ELSE IF opt.result # "ok" THEN opt
        ELSE IF modules["preprocess"] # "unset" /\ generate_data
                    /\ ~ModelTrueReady
        THEN failed
        ELSE IF stop_after # None /\ ~StopAfterKnown THEN failed
        ELSE opt

RECURSIVE SetupRequired(_, _)
\* for req_mod in self._required_modules: the module's setup(); None has no
\* setup()
SetupRequired(roles, calls) ==
    IF roles = <<>> THEN [calls |-> calls, result |-> "ok"]
    ELSE LET req_mod == Head(roles)
         IN  IF modules[req_mod] = "unset"
             THEN [calls |-> calls, result |-> "AttributeError"]
             ELSE SetupRequired(Tail(roles),
                                Append(calls, <<"setup", req_mod>>))

\* mutant: setup() is called on every optional role
RECURSIVE SetupOptional_Unguarded(_, _)
SetupOptional_Unguarded(roles, calls) ==
    IF roles = <<>> THEN [calls |-> calls, result |-> "ok"]
    ELSE SetupOptional_Unguarded(Tail(roles),
                                 Append(calls, <<"setup", Head(roles)>>))

RECURSIVE SetupOptional(_, _)
\* for opt_mod in self._optional_modules: the module's setup() when the role
\* is set and is not a required one
SetupOptional(roles, calls) ==
    IF roles = <<>> THEN [calls |-> calls, result |-> "ok"]
    ELSE LET opt_mod == Head(roles)
         IN  IF modules[opt_mod] # "unset"
                    /\ opt_mod \notin Range(required_modules)
             THEN SetupOptional(Tail(roles),
                                Append(calls, <<"setup", opt_mod>>))
             ELSE SetupOptional(Tail(roles), calls)

\* what setup() calls, in order, and how the two loops end
setup ==
    LET req == SetupRequired(required_modules, <<>>)
    IN  IF req.result # "ok" THEN req
        ELSE SetupOptional(optional_modules, req.calls)

(* ------------------------- units of work ------------------------------ *)
UnitNames == <<"u1", "u2", "u3">>

\* one unit per source: the dispatcher runs the given functions once for each
Units == {UnitNames[k] : k \in 1..NUnits}

\* evaluate_objective_function has not run for the unit
NoDid == [force |-> "None", what |-> "none", e |-> "none", n |-> "none"]

\* no source-encoded inversion
NoSE == [pc |-> "none", PAR |-> <<>>, iter |-> 1, calls |-> <<>>]

\* scratch directories with nothing in them, no source-encoded inversion
NoScratch ==
    /\ syn = [u \in Units |-> [e |-> "none", n |-> "none"]]
    /\ adj = [u \in Units |-> {}]
    /\ wrote = {}
    /\ did = [u \in Units |-> NoDid]
    /\ se = NoSE

\* no noise-inversion engine: the variables of one rest at their defaults
NoNoise ==
    /\ NoScratch
    /\ kernels = <<"Z", "Z">>
    /\ _force = None
    /\ _cmpnt = None
    /\ npc = "none"
    /\ ni = 0
    /\ sub = 0
    /\ nstates = <<>>
    /\ seen = {}
    /\ passes = <<>>

\* no system.run() in progress
NoSubmit ==
    [state |-> "none", only |-> FALSE, list |-> <<>>,
     at |-> [u \in Units |-> 0]]

\* mutant: the list does not depend on the preprocess module
run_list_Full(_preproc_only) ==
    IF _preproc_only
    THEN <<"prepare_data_for_solver", "evaluate_objective_function">>
    ELSE <<"prepare_data_for_solver", "run_forward_simulations",
           "evaluate_objective_function">>

\* the functions evaluate_initial_misfit hands to system.run()
run_list(_preproc_only) ==
    IF modules["preprocess"] # "unset"
    THEN IF _preproc_only
         THEN <<"prepare_data_for_solver", "evaluate_objective_function">>
         ELSE <<"prepare_data_for_solver", "run_forward_simulations",
                "evaluate_objective_function">>
    ELSE <<"run_forward_simulations">>

\* the function of the list the unit is to run next, "" when it has run all
NextOf(u) ==
    IF submit.at[u] < Len(submit.list) THEN submit.list[submit.at[u] + 1]
    ELSE ""

\* the unit has run one more function of the list
Advanced(u) == [submit EXCEPT !.at[u] = @ + 1]

(* -------------------------------- Init -------------------------------- *)
\* the run-time of an engine whose roles are all set: there is no state
\* file and setup() was never called, or there is a state file in
\* directories that a setup() has made
Init ==
    /\ submit = NoSubmit
    /\ NoNoise
    /\ obs = [u \in Units |-> {}]
    /\ data = [u \in Units |-> TRUE]
    /\ modules = [r \in Roles |-> "ok"]
    /\ generate_data = FALSE
    /\ model_true = "None"
    /\ checked = NoCall
    /\ stop_after \in {None} \cup Tasks
    /\ \/ /\ file_exists = FALSE /\ file_lines = <<>>
          /\ dirs = FALSE /\ set_up = NoCall
       \/ /\ file_exists = TRUE /\ file_lines \in InitFiles
          /\ dirs = TRUE
          /\ set_up = setup
    /\ states = <<>>
    /\ pc = "none"
    /\ i = 0
    /\ n = 0
    /\ err = "none"
    /\ log = <<>>
    /\ start = NoStart
    /\ written = FALSE

(* ------------------------------ actions ------------------------------- *)
Resting == {"idle", "done", "raised"}

\* Forward.__init__: a new engine, in a new process or in the same one
New ==
    /\ pc \in {"none", "idle", "done", "raised", "exited", "killed", "broken"}
    /\ ~LoadFails(file_exists, file_lines)
    /\ states' = LoadStates(file_exists, file_lines)
    /\ submit' = NoSubmit
    /\ pc' = "idle"
    /\ i' = 0 /\ n' = 0 /\ err' = "none" /\ log' = <<>> /\ start' = NoStart
    /\ UNCHANGED <<noise, scratch, config, obs, data, prepared, file_exists, file_lines, written>>

\* Forward.check
Check ==
    /\ pc \in Resting
    /\ checked' = check
    /\ UNCHANGED <<noise, scratch, config, dispatch, model_true, dirs, set_up, file_exists, file_lines,
                   written, states, pc, i, n, err, log, start>>

\* mutant: setup() writes the header whether or not the file is there
Setup_Fresh ==
    /\ pc \in Resting
    /\ dirs' = TRUE
    /\ model_true' = IF model_true = "missing" THEN "exists" ELSE model_true
    /\ set_up' = setup
    /\ IF setup.result = "ok"
       THEN /\ file_exists' = TRUE
            /\ file_lines' = SetupHeader
            /\ written' = FALSE
       ELSE UNCHANGED <<file_exists, file_lines, written>>
    /\ UNCHANGED <<noise, scratch, config, dispatch, checked, states, pc, i, n, err, log, start>>

\* Forward.setup: the directories of self.path (a path without a suffix is
\* one, the path of the target model among them), the modules' setup(), and
\* the state file when there is none
Setup ==
    /\ pc \in Resting
    /\ dirs' = TRUE
    /\ model_true' = IF model_true = "missing" THEN "exists" ELSE model_true
    /\ set_up' = setup
    /\ IF setup.result = "ok" /\ ~file_exists
       THEN /\ file_exists' = TRUE
            /\ file_lines' = SetupHeader
            /\ written' = FALSE
       ELSE UNCHANGED <<file_exists, file_lines, written>>
    /\ UNCHANGED <<noise, scratch, config, dispatch, checked, states, pc, i, n, err, log, start>>

\* Forward.checkpoint called on its own
Checkpoint ==
    /\ pc \in Resting
    /\ file_exists
    /\ file_lines' = checkpoint(file_lines, states)
    /\ written' = TRUE
    /\ UNCHANGED <<noise, scratch, config, dispatch, prepared, file_exists, states, pc, i, n, err, log, start>>

\* run(): n = 0 and the first turn of the for loop
RunBegin ==
    /\ pc \in Resting
    /\ pc' = "loop"
    /\ i' = 1 /\ n' = 0 /\ err' = "none" /\ log' = <<>>
    /\ start' = [states |-> states, exists |-> file_exists,
                 lines |-> file_lines, written |-> written,
                 first |-> (pc = "idle")]
    /\ UNCHANGED <<noise, scratch, config, dispatch, prepared, file_exists, file_lines, states, written>>

func == task_list[i]

\* the next turn of the for loop, or the end of it
NextTurn == IF i + 1 > Len(task_list) THEN "final" ELSE "loop"

\* mutant: the status is compared as the text read from the file, which
\* never equals the number 1
Completed_Never(st, key) == FALSE

\* mutant: the test skips what failed and runs again what is complete
Completed_IfFailed(st, key) == Has(st, key) /\ Get(st, key) = Failed

\* mutant: a failed step counts as done
Completed_OrFailed(st, key) == Has(st, key) /\ Get(st, key) # Pending

\* lines 272-273
Completed(st, key) == Has(st, key) /\ Get(st, key) = Complete

\* mutant: stop_after is never honoured
StopAfter_Never(name) == FALSE

\* line 289
StopAfter(name) == stop_after # None /\ name = stop_after

\* mutant: a skipped step is counted in n
RunSkip_Counted ==
    /\ pc = "loop"
    /\ Completed(states, func)
    /\ log' = Append(log, <<"skip", func>>)
    /\ i' = i + 1
    /\ n' = n + 1
    /\ pc' = NextTurn
    /\ UNCHANGED <<noise, scratch, config, dispatch, prepared, file_exists, file_lines, states, err, start,
                   written>>

\* mutant: the stop_after test is made for a skipped step too
RunSkip_Stops ==
    /\ pc = "loop"
    /\ Completed(states, func)
    /\ log' = IF StopAfter(func)
              THEN log \o << <<"skip", func>>, <<"break", func>> >>
              ELSE Append(log, <<"skip", func>>)
    /\ i' = i + 1
    /\ pc' = IF StopAfter(func) THEN "final" ELSE NextTurn
    /\ UNCHANGED <<noise, scratch, config, dispatch, prepared, file_exists, file_lines, states, n, err, start,
                   written>>

\* lines 272-275: already completed, `continue`
RunSkip ==
    /\ pc = "loop"
    /\ Completed(states, func)
    /\ log' = Append(log, <<"skip", func>>)
    /\ i' = i + 1
    /\ pc' = NextTurn
    /\ UNCHANGED <<noise, scratch, config, dispatch, prepared, file_exists, file_lines, states, n, err, start,
                   written>>

\* line 280: func() is called
RunCall ==
    /\ pc = "loop"
    /\ ~Completed(states, func)
    /\ pc' = "func"
    /\ log' = Append(log, <<"call", func>>)
    /\ UNCHANGED <<noise, scratch, config, dispatch, prepared, file_exists, file_lines, states, i, n, err,
                   start, written>>

\* lines 280-291: func() returned; n += 1, the state is set and checkpointed,
\* then the stop_after test.  Without a state file checkpoint() raises inside
\* the try block, the handler runs and its own checkpoint() raises again.
RunReturn ==
    /\ pc = "func"
    /\ submit.state \in {"none", "returned"}
    /\ submit' = NoSubmit
    /\ n' = n + 1
    /\ IF file_exists
       THEN /\ states' = Put(states, func, Complete)
            /\ file_lines' = checkpoint(file_lines, states')
            /\ written' = TRUE
            /\ IF StopAfter(func)
               THEN /\ log' = log \o << <<"return", func>>,
                                        <<"checkpoint", func>>,
                                        <<"break", func>> >>
                    /\ pc' = "final"
                    /\ i' = i + 1
               ELSE /\ log' = log \o << <<"return", func>>,
                                        <<"checkpoint", func>> >>
                    /\ pc' = NextTurn
                    /\ i' = i + 1
            /\ err' = err
       ELSE /\ states' = Put(states, func, Failed)
            /\ log' = log \o << <<"return", func>>, <<"except", func>> >>
            /\ pc' = "raised"
            /\ err' = "FileNotFoundError"
            /\ UNCHANGED <<file_lines, written, i>>
    /\ UNCHANGED <<noise, scratch, config, obs, data, prepared, file_exists, start>>

\* mutant: the handler sets the state but does not checkpoint
RunRaise_NoCheckpoint ==
    /\ pc = "func"
    /\ submit.state \in {"none", "returned", "raised"}
    /\ submit' = NoSubmit
    /\ states' = Put(states, func, Failed)
    /\ pc' = "raised"
    /\ log' = log \o << <<"raise", func>>, <<"except", func>> >>
    /\ err' = "StepError"
    /\ UNCHANGED <<noise, scratch, config, obs, data, prepared, file_exists, file_lines, written, i, n, start>>

\* mutant: the handler does not re-raise, the loop goes on
RunRaise_Swallowed ==
    /\ pc = "func"
    /\ submit.state \in {"none", "returned", "raised"}
    /\ submit' = NoSubmit
    /\ file_exists
    /\ states' = Put(states, func, Failed)
    /\ file_lines' = checkpoint(file_lines, states')
    /\ written' = TRUE
    /\ log' = log \o << <<"raise", func>>, <<"except", func>>,
                        <<"checkpoint", func>> >>
    /\ pc' = NextTurn
    /\ i' = i + 1
    /\ UNCHANGED <<noise, scratch, config, obs, data, prepared, file_exists, n, err, start>>

\* lines 284-287: func() raised an Exception
RunRaise ==
    /\ pc = "func"
    /\ submit.state \in {"none", "returned", "raised"}
    /\ submit' = NoSubmit
    /\ states' = Put(states, func, Failed)
    /\ pc' = "raised"
    /\ IF file_exists
       THEN /\ file_lines' = checkpoint(file_lines, states')
            /\ written' = TRUE
            /\ log' = log \o << <<"raise", func>>, <<"except", func>>,
                                <<"checkpoint", func>> >>
            /\ err' = "StepError"
       ELSE /\ log' = log \o << <<"raise", func>>, <<"except", func>> >>
            /\ err' = "FileNotFoundError"
            /\ UNCHANGED <<file_lines, written>>
    /\ UNCHANGED <<noise, scratch, config, obs, data, prepared, file_exists, i, n, start>>

\* sys.exit(-1) under func(): SystemExit is not an Exception, no handler runs
RunExit ==
    /\ pc = "func"
    /\ submit.state \in {"none", "returned"}
    /\ pc' = "exited"
    /\ err' = "SystemExit"
    /\ log' = Append(log, <<"exit", func>>)
    /\ UNCHANGED <<noise, scratch, config, dispatch, prepared, file_exists, file_lines, states, i, n, start,
                   written>>

\* lines 293-294: the checkpoint after the loop and the report of n
RunEnd ==
    /\ pc = "final"
    /\ IF file_exists
       THEN /\ file_lines' = checkpoint(file_lines, states)
            /\ written' = TRUE
            /\ log' = Append(log, <<"checkpoint", "">>)
            /\ pc' = "done"
            /\ err' = err
       ELSE /\ pc' = "raised"
            /\ err' = "FileNotFoundError"
            /\ UNCHANGED <<file_lines, written, log>>
    /\ UNCHANGED <<noise, scratch, config, dispatch, prepared, file_exists, states, i, n, start>>

Prefixes(s) == {SubSeq(s, 1, k) : k \in 0..Len(s)}

\* the controlling process is killed outside checkpoint()
Kill ==
    /\ pc \in {"loop", "func", "final"}
    /\ pc' = "killed"
    /\ log' = Append(log, <<"kill", "">>)
    /\ UNCHANGED <<noise, scratch, config, dispatch, prepared, file_exists, file_lines, states, i, n, err,
                   start, written>>

\* the controlling process is killed inside checkpoint(), lines 253-259:
\* open(..., "w") has emptied the file and some, all or none of the lines
\* written since have reached it
KillInCheckpoint ==
    /\ file_exists
    /\ \/ /\ pc = "func" /\ submit.state \in {"none", "returned"}
          /\ states' = Put(states, func, Complete)
       \/ /\ pc = "func" /\ submit.state \in {"none", "returned", "raised"}
          /\ states' = Put(states, func, Failed)
       \/ pc = "final" /\ states' = states
    /\ file_lines' \in Prefixes(checkpoint(file_lines, states'))
    /\ written' = (file_lines' = checkpoint(file_lines, states'))
    /\ pc' = "killed"
    /\ log' = Append(log, <<"kill", "checkpoint">>)
    /\ UNCHANGED <<noise, scratch, config, dispatch, prepared, file_exists, i, n, err, start>>

Next ==
    \/ New
    \/ Setup
    \/ Checkpoint
    \/ RunBegin
    \/ RunSkip
    \/ RunCall
    \/ RunReturn
    \/ RunRaise
    \/ RunExit
    \/ RunEnd
    \/ Kill
    \/ KillInCheckpoint

Spec == Init /\ [][Next]_vars

(* ---------------- check() and setup() of any configuration ------------- *)
\* state files setup() may find: an empty one, and one with a "#" line and
\* the record of a Complete step
SetupFiles ==
    { <<>>,
      <<HdrLine("# h1"), RecLine(task_list[1], StrOf(Complete))>> }

\* an engine of any configuration, before its check() and setup()
InitCheck ==
    /\ submit = NoSubmit
    /\ NoNoise
    /\ obs = [u \in Units |-> {}]
    /\ data = [u \in Units |-> TRUE]
    /\ modules \in [Roles -> ModuleKinds]
    /\ generate_data \in BOOLEAN
    /\ model_true \in {"None", "missing", "exists"}
    /\ dirs = FALSE
    /\ checked = NoCall
    /\ set_up = NoCall
    /\ stop_after \in {None} \cup Tasks \cup UnknownNames
    /\ \/ file_exists = FALSE /\ file_lines = <<>>
       \/ file_exists = TRUE /\ file_lines \in SetupFiles
    /\ states = <<>>
    /\ pc = "none"
    /\ i = 0
    /\ n = 0
    /\ err = "none"
    /\ log = <<>>
    /\ start = NoStart
    /\ written = FALSE

NextCheck ==
    \/ New
    \/ Check
    \/ Setup

SpecCheck == InitCheck /\ [][NextCheck]_vars

(* ------------- run() whose step functions all return ------------------ *)
\* no stop_after is configured
InitLive == Init /\ stop_after = None

\* a step of the controlling process inside run(): the loop goes on and a
\* called function comes back
RunStep ==
    \/ RunSkip
    \/ RunCall
    \/ RunReturn
    \/ RunEnd

\* no function raises or exits and the process is not killed
NextLive ==
    \/ New
    \/ Setup
    \/ Checkpoint
    \/ RunBegin
    \/ RunSkip
    \/ RunCall
    \/ RunReturn
    \/ RunEnd

SpecLive == InitLive /\ [][NextLive]_vars /\ WF_vars(RunStep)

(* ------------- steps that hand work to the dispatcher ------------------ *)
\* evaluate_initial_misfit, lines 412-429: the list is built, with or without
\* _preproc_only, and handed to self.system.run(), which runs it once per
\* unit and blocks
Submit ==
    /\ pc = "func"
    /\ submit.state = "none"
    /\ \E _preproc_only \in BOOLEAN :
          submit' = [state |-> "running", only |-> _preproc_only,
                     list |-> run_list(_preproc_only),
                     at |-> [u \in Units |-> 0]]
    /\ UNCHANGED <<noise, scratch, config, prepared, obs, data, file_exists, file_lines,
                   written, states, pc, i, n, err, log, start>>

\* glob(traces/obs/*) of the unit finds files: its own, there before any
\* preparation, or those prepare_data_for_solver has linked
HasObs(u) == obs[u] # {}

\* what `for src_ in glob(src)` links into traces/obs
Linked(u) == IF data[u] THEN {"data"} ELSE {}

\* a unit of the running system.run() is to run the function next
UnitAt(u, function) ==
    /\ pc = "func"
    /\ submit.state = "running"
    /\ NextOf(u) = function

\* mutant: a unit links the data although it has observations
UnitPrepare_Overwrites(u) ==
    /\ UnitAt(u, "prepare_data_for_solver")
    /\ HasObs(u) \/ data[u]
    /\ obs' = [obs EXCEPT ![u] = Linked(u)]
    /\ submit' = Advanced(u)
    /\ UNCHANGED <<noise, scratch, config, prepared, data, file_exists, file_lines, written,
                   states, pc, i, n, err, log, start>>

\* mutant: a unit that finds no data goes on without any
UnitPrepare_Lenient(u) ==
    /\ UnitAt(u, "prepare_data_for_solver")
    /\ obs' = [obs EXCEPT ![u] = @ \cup Linked(u)]
    /\ submit' = Advanced(u)
    /\ UNCHANGED <<noise, scratch, config, prepared, data, file_exists, file_lines, written,
                   states, pc, i, n, err, log, start>>

\* prepare_data_for_solver, lines 458-468 and 487-489: it returns at once
\* when traces/obs has files, else links the files found under path.data
UnitPrepare(u) ==
    /\ UnitAt(u, "prepare_data_for_solver")
    /\ HasObs(u) \/ data[u]
    /\ obs' = IF HasObs(u) THEN obs ELSE [obs EXCEPT ![u] = Linked(u)]
    /\ submit' = Advanced(u)
    /\ UNCHANGED <<noise, scratch, config, prepared, data, file_exists, file_lines, written,
                   states, pc, i, n, err, log, start>>

\* mutant: the exit is handled as an exception of the step
UnitExit_Handled(u) ==
    /\ UnitAt(u, "prepare_data_for_solver")
    /\ ~HasObs(u) /\ ~data[u]
    /\ pc' = "exited"
    /\ err' = "SystemExit"
    /\ states' = Put(states, func, Failed)
    /\ file_lines' = IF file_exists
                     THEN checkpoint(file_lines, Put(states, func, Failed))
                     ELSE file_lines
    /\ written' = file_exists
    /\ log' = Append(log, <<"exit", func>>)
    /\ UNCHANGED <<noise, scratch, config, prepared, dispatch, file_exists, i, n, start>>

\* prepare_data_for_solver, lines 477-485: nothing in traces/obs and nothing
\* under path.data, sys.exit(-1); the exit ends the whole process
UnitExit(u) ==
    /\ UnitAt(u, "prepare_data_for_solver")
    /\ ~HasObs(u) /\ ~data[u]
    /\ pc' = "exited"
    /\ err' = "SystemExit"
    /\ log' = Append(log, <<"exit", func>>)
    /\ UNCHANGED <<noise, scratch, config, prepared, dispatch, file_exists, file_lines,
                   written, states, i, n, start>>

\* run_forward_simulations of a unit returns
UnitForward(u) ==
    /\ UnitAt(u, "run_forward_simulations")
    /\ submit' = Advanced(u)
    /\ UNCHANGED <<noise, scratch, config, prepared, obs, data, file_exists, file_lines,
                   written, states, pc, i, n, err, log, start>>

\* mutant: a unit saves the ledger
UnitObjective_Checkpoints(u) ==
    /\ UnitAt(u, "evaluate_objective_function")
    /\ submit' = Advanced(u)
    /\ file_exists
    /\ file_lines' = checkpoint(file_lines, states)
    /\ written' = TRUE
    /\ UNCHANGED <<noise, scratch, config, prepared, obs, data, file_exists,
                   states, pc, i, n, err, log, start>>

\* evaluate_objective_function of a unit returns
UnitObjective(u) ==
    /\ UnitAt(u, "evaluate_objective_function")
    /\ submit' = Advanced(u)
    /\ UNCHANGED <<noise, scratch, config, prepared, obs, data, file_exists, file_lines,
                   written, states, pc, i, n, err, log, start>>

\* a function of a unit raises: system.run() raises in the step
UnitRaise(u) ==
    /\ pc = "func"
    /\ submit.state = "running"
    /\ NextOf(u) # ""
    /\ submit' = [submit EXCEPT !.state = "raised"]
    /\ UNCHANGED <<noise, scratch, config, prepared, obs, data, file_exists, file_lines,
                   written, states, pc, i, n, err, log, start>>

\* every unit has run the whole list: system.run() returns
SubmitReturn ==
    /\ pc = "func"
    /\ submit.state = "running"
    /\ \A u \in Units : NextOf(u) = ""
    /\ submit' = [submit EXCEPT !.state = "returned"]
    /\ UNCHANGED <<noise, scratch, config, prepared, obs, data, file_exists, file_lines,
                   written, states, pc, i, n, err, log, start>>

\* an engine after setup(), with or without preprocess, over units with and
\* without observations and data
InitUnits ==
    /\ submit = NoSubmit
    /\ NoNoise
    /\ obs \in [Units -> {{}, {"own"}}]
    /\ data \in [Units -> BOOLEAN]
    /\ modules \in {[r \in Roles |-> IF r = "preprocess" THEN p ELSE "ok"] :
                      p \in {"ok", "unset"}}
    /\ generate_data = FALSE
    /\ model_true = "None"
    /\ checked = NoCall
    /\ stop_after = None
    /\ file_exists = TRUE /\ file_lines \in SetupFiles
    /\ dirs = TRUE
    /\ set_up = setup
    /\ states = <<>>
    /\ pc = "none"
    /\ i = 0
    /\ n = 0
    /\ err = "none"
    /\ log = <<>>
    /\ start = NoStart
    /\ written = FALSE

NextUnits ==
    \/ New
    \/ Checkpoint
    \/ RunBegin
    \/ RunSkip
    \/ RunCall
    \/ Submit
    \/ \E u \in Units : UnitPrepare(u)
    \/ \E u \in Units : UnitExit(u)
    \/ \E u \in Units : UnitForward(u)
    \/ \E u \in Units : UnitObjective(u)
    \/ \E u \in Units : UnitRaise(u)
    \/ SubmitReturn
    \/ RunReturn
    \/ RunRaise
    \/ RunEnd

SpecUnits == InitUnits /\ [][NextUnits]_vars

(* ---------------------- the noise-inversion engine -------------------- *)
\* the kernel names a configuration is made of: the three the engine knows,
\* spellings str.upper() turns into one of them, and a pair it does not know
KernelTokens ==
    { <<"Z", "Z">>, <<"T", "T">>, <<"R", "R">>,
      <<"z", "z">>, <<"r", "R">>, <<"Z", "T">> }

\* the names joined with commas, as the parameter `kernels` is written
RECURSIVE Join(_)
Join(ts) ==
    IF ts = <<>> THEN <<>>
    ELSE IF Len(ts) = 1 THEN ts[1]
    ELSE ts[1] \o <<",">> \o Join(Tail(ts))

\* the strings given as `kernels`, before upper()
KernelInputs ==
    { Join(ts) : ts \in UNION { [1..k -> KernelTokens] : k \in 0..MaxKernels } }

\* str.upper()
Upper(s) ==
    [k \in 1..Len(s) |->
        CASE s[k] = "z" -> "Z"
          [] s[k] = "t" -> "T"
          [] s[k] = "r" -> "R"
          [] OTHER -> s[k]]

\* the test `word in s` of two strings
In(word, s) ==
    \E k \in 0..(Len(s) - Len(word)) : SubSeq(s, k + 1, k + Len(word)) = word

\* str.split(",")
RECURSIVE Split(_)
Split(s) ==
    IF \A k \in 1..Len(s) : s[k] # ","
    THEN <<s>>
    ELSE LET c == CHOOSE k \in 1..Len(s) :
                     s[k] = "," /\ \A j \in 1..(k - 1) : s[j] # ","
         IN  <<SubSeq(s, 1, c - 1)>> \o Split(SubSeq(s, c + 1, Len(s)))

\* the tasks every inversion ends with
StandardTasks ==
    <<"postprocess_event_kernels", "evaluate_gradient_from_kernels",
      "initialize_line_search", "perform_line_search", "finalize_iteration">>

\* mutant: the ZZ step is part of every list
noise_task_list_Always ==
    <<"generate_zz_kernels">>
    \o (IF In(<<"T", "T">>, kernels) \/ In(<<"R", "R">>, kernels)
        THEN <<"generate_tt_rr_kernels">> ELSE <<>>)
    \o StandardTasks

\* NoiseInversion.task_list
noise_task_list ==
    (IF In(<<"Z", "Z">>, kernels) THEN <<"generate_zz_kernels">> ELSE <<>>)
    \o (IF In(<<"T", "T">>, kernels) \/ In(<<"R", "R">>, kernels)
        THEN <<"generate_tt_rr_kernels">> ELSE <<>>)
    \o StandardTasks

\* an assignment to the context leaves a field as it is
Keep == "keep"

SetContext(force, cmpnt) == [op |-> "set", force |-> force, cmpnt |-> cmpnt]

\* mutant: a turn that does not set the component
CmpntTurn_Unset(cmpnt) ==
    << [op |-> "test", force |-> Keep, cmpnt |-> cmpnt],
       SetContext(Keep, Keep),
       SetContext("E", Keep),
       [op |-> "adjoint", force |-> Keep, cmpnt |-> Keep],
       SetContext("N", Keep),
       [op |-> "adjoint", force |-> Keep, cmpnt |-> Keep],
       SetContext(None, None) >>

\* one turn of `for cmpnt in ["T", "R"]` of generate_tt_rr_kernels
CmpntTurn(cmpnt) ==
    << [op |-> "test", force |-> Keep, cmpnt |-> cmpnt],
       SetContext(Keep, cmpnt),
       SetContext("E", Keep),
       [op |-> "adjoint", force |-> Keep, cmpnt |-> Keep],
       SetContext("N", Keep),
       [op |-> "adjoint", force |-> Keep, cmpnt |-> Keep],
       SetContext(None, None) >>

\* the statements of a task, one after the other
Body(name) ==
    CASE name = "generate_zz_kernels" ->
           << SetContext("Z", "Z"),
              [op |-> "misfit", force |-> Keep, cmpnt |-> Keep],
              [op |-> "adjoint", force |-> Keep, cmpnt |-> Keep] >>
      [] name = "generate_tt_rr_kernels" ->
           << SetContext("E", Keep),
              [op |-> "misfit", force |-> Keep, cmpnt |-> Keep],
              SetContext("N", Keep),
              [op |-> "misfit", force |-> Keep, cmpnt |-> Keep] >>
           \o CmpntTurn("T") \o CmpntTurn("R")
      [] name = "perform_line_search" ->
           << [op |-> "line_search", force |-> Keep, cmpnt |-> Keep] >>
      [] OTHER ->
           << [op |-> "other", force |-> Keep, cmpnt |-> Keep] >>

\* the task of the current turn of the loop of run()
nfunc == noise_task_list[ni]

\* the statement the task is at
Instr == Body(nfunc)[sub]

InBody(ops) ==
    /\ npc = "body"
    /\ sub <= Len(Body(nfunc))
    /\ Instr.op \in ops

\* _evaluate_line_search_misfit: the force it leaves in self._force
LineSearchForce ==
    IF In(<<"Z", "Z">>, kernels) THEN "Z"
    ELSE IF In(<<"R", "R">>, kernels) \/ In(<<"T", "T">>, kernels) THEN "E"
    ELSE _force

\* NoiseInversion.__init__ (with Forward.__init__): the kernels are kept in
\* upper case, the context is unset and the statuses are those of the state
\* file, or Pending for the whole list
NoiseNew ==
    /\ npc \in {"none", "idle"}
    /\ kernels' = Upper(kernels)
    /\ _force' = None
    /\ _cmpnt' = None
    /\ npc' = "idle"
    /\ ni' = 0
    /\ sub' = 0
    /\ nstates' = IF nstates = <<>>
                  THEN [k \in 1..Len(noise_task_list') |->
                           <<noise_task_list'[k], Pending>>]
                  ELSE nstates
    /\ seen' = {noise_task_list'}
    /\ passes' = <<>>
    /\ UNCHANGED <<scratch, config, dispatch, prepared, file_exists,
                   file_lines, written, states, pc, i, n, err, log, start>>

\* run(): the loop over self.task_list begins
NoiseRunBegin ==
    /\ npc = "idle"
    /\ npc' = "loop"
    /\ ni' = 1
    /\ seen' = seen \cup {noise_task_list}
    /\ passes' = <<>>
    /\ UNCHANGED <<kernels, _force, _cmpnt, sub, nstates,
                   scratch, config, dispatch, prepared, file_exists,
                   file_lines, written, states, pc, i, n, err, log, start>>

\* run(): a task that is Complete is passed over
NoiseSkip ==
    /\ npc = "loop"
    /\ ni <= Len(noise_task_list)
    /\ Get(nstates, nfunc) = Complete
    /\ ni' = ni + 1
    /\ UNCHANGED <<kernels, _force, _cmpnt, npc, sub, nstates, seen, passes,
                   scratch, config, dispatch, prepared, file_exists,
                   file_lines, written, states, pc, i, n, err, log, start>>

\* synthetics that an earlier call of a task has left in the scratch
\* directory of a unit: nothing in this file removes traces/syn_e or
\* traces/syn_n
Aged(age) == IF age = "none" THEN "none" ELSE "old"

\* run(): func() is called
NoiseCall ==
    /\ npc = "loop"
    /\ ni <= Len(noise_task_list)
    /\ Get(nstates, nfunc) # Complete
    /\ npc' = "body"
    /\ sub' = 1
    /\ passes' = <<>>
    /\ syn' = [u \in Units |-> [e |-> Aged(syn[u].e), n |-> Aged(syn[u].n)]]
    /\ did' = [u \in Units |-> NoDid]
    /\ UNCHANGED <<kernels, _force, _cmpnt, ni, nstates, seen,
                   adj, wrote, se, config, dispatch, prepared, file_exists,
                   file_lines, written, states, pc, i, n, err, log, start>>

\* an assignment to self._force, self._cmpnt or both
NoiseSet ==
    /\ InBody({"set"})
    /\ _force' = IF Instr.force = Keep THEN _force ELSE Instr.force
    /\ _cmpnt' = IF Instr.cmpnt = Keep THEN _cmpnt ELSE Instr.cmpnt
    /\ sub' = sub + 1
    /\ UNCHANGED <<kernels, npc, ni, nstates, seen, passes,
                   scratch, config, dispatch, prepared, file_exists,
                   file_lines, written, states, pc, i, n, err, log, start>>

\* mutant: no component is passed over
NoiseTest_Always ==
    /\ InBody({"test"})
    /\ sub' = sub + 1
    /\ UNCHANGED <<kernels, _force, _cmpnt, npc, ni, nstates, seen, passes,
                   scratch, config, dispatch, prepared, file_exists,
                   file_lines, written, states, pc, i, n, err, log, start>>

\* `if cmpnt not in self.kernels: continue`
NoiseTest ==
    /\ InBody({"test"})
    /\ sub' = IF In(<<Instr.cmpnt>>, kernels) THEN sub + 1
              ELSE sub + Len(CmpntTurn(Instr.cmpnt))
    /\ UNCHANGED <<kernels, _force, _cmpnt, npc, ni, nstates, seen, passes,
                   scratch, config, dispatch, prepared, file_exists,
                   file_lines, written, states, pc, i, n, err, log, start>>

\* what a pass needs of the context to run: run_forward_simulations asserts
\* a force, _run_adjoint_simulation_single lowers the component of E and N
PassCanRun ==
    IF Instr.op = "misfit" THEN _force # None
    ELSE ~(_force \in {"E", "N"} /\ _cmpnt = None)

\* super().evaluate_initial_misfit() or run_adjoint_simulations() returns
NoisePass ==
    /\ InBody({"misfit", "adjoint"})
    /\ PassCanRun
    /\ passes' = Append(passes, <<Instr.op, _force, _cmpnt>>)
    /\ sub' = sub + 1
    /\ UNCHANGED <<kernels, _force, _cmpnt, npc, ni, nstates, seen,
                   scratch, config, dispatch, prepared, file_exists,
                   file_lines, written, states, pc, i, n, err, log, start>>

\* the pass raises: run() sets the task Failed, saves and raises
NoisePassRaise ==
    /\ InBody({"misfit", "adjoint"})
    /\ nstates' = Put(nstates, nfunc, Failed)
    /\ npc' = "idle"
    /\ UNCHANGED <<kernels, _force, _cmpnt, ni, sub, seen, passes,
                   scratch, config, dispatch, prepared, file_exists,
                   file_lines, written, states, pc, i, n, err, log, start>>

\* a task of the standard list runs; perform_line_search may evaluate the
\* misfit of a trial model with _evaluate_line_search_misfit
NoiseOther ==
    /\ InBody({"other", "line_search"})
    /\ \E evaluated \in BOOLEAN :
          /\ evaluated => Instr.op = "line_search"
          /\ _force' = IF evaluated THEN LineSearchForce ELSE _force
    /\ sub' = sub + 1
    /\ UNCHANGED <<kernels, _cmpnt, npc, ni, nstates, seen, passes,
                   scratch, config, dispatch, prepared, file_exists,
                   file_lines, written, states, pc, i, n, err, log, start>>

\* func() returns: run() sets the task Complete and saves
NoiseReturn ==
    /\ npc = "body"
    /\ sub = Len(Body(nfunc)) + 1
    /\ nstates' = Put(nstates, nfunc, Complete)
    /\ npc' = "loop"
    /\ ni' = ni + 1
    /\ UNCHANGED <<kernels, _force, _cmpnt, sub, seen, passes,
                   scratch, config, dispatch, prepared, file_exists,
                   file_lines, written, states, pc, i, n, err, log, start>>

\* run(): the loop is over
NoiseRunEnd ==
    /\ npc = "loop"
    /\ ni > Len(noise_task_list)
    /\ npc' = "idle"
    /\ UNCHANGED <<kernels, _force, _cmpnt, ni, sub, nstates, seen, passes,
                   scratch, config, dispatch, prepared, file_exists,
                   file_lines, written, states, pc, i, n, err, log, start>>

\* a noise-inversion engine is about to be made; `kernels` holds the string
\* given to __init__
InitNoise ==
    /\ kernels \in KernelInputs
    /\ NoScratch
    /\ _force = None
    /\ _cmpnt = None
    /\ npc = "none"
    /\ ni = 0
    /\ sub = 0
    /\ nstates = <<>>
    /\ seen = {}
    /\ passes = <<>>
    /\ submit = NoSubmit
    /\ obs = [u \in Units |-> {}]
    /\ data = [u \in Units |-> TRUE]
    /\ modules = [r \in Roles |-> "ok"]
    /\ generate_data = FALSE
    /\ model_true = "None"
    /\ checked = NoCall
    /\ stop_after = None
    /\ file_exists = FALSE /\ file_lines = <<>>
    /\ dirs = FALSE
    /\ set_up = NoCall
    /\ states = <<>>
    /\ pc = "none"
    /\ i = 0
    /\ n = 0
    /\ err = "none"
    /\ log = <<>>
    /\ start = NoStart
    /\ written = FALSE

NextNoise ==
    \/ NoiseNew
    \/ NoiseRunBegin
    \/ NoiseSkip
    \/ NoiseCall
    \/ NoiseSet
    \/ NoiseTest
    \/ NoisePass
    \/ NoisePassRaise
    \/ NoiseOther
    \/ NoiseReturn
    \/ NoiseRunEnd

SpecNoise == InitNoise /\ [][NextNoise]_vars

(* ------------------ the units of a noise-inversion pass ----------------- *)
\* str.lower() of a force or a component
lower(c) ==
    CASE c = "Z" -> "z" [] c = "E" -> "e" [] c = "N" -> "n"
      [] c = "T" -> "t" [] c = "R" -> "r" [] OTHER -> c

\* trace_path: <cwd of the unit>/traces/<tag>, or <tag>_<comp> in lower case
trace_path(u, tag, comp) ==
    IF comp # None THEN <<"solver", u, "traces", tag, lower(comp)>>
    ELSE <<"solver", u, "traces", tag>>

\* the save_residuals of evaluate_initial_misfit after .format(src=...)
save_residuals(u) == <<"eval_grad", "residuals", "residuals_", u, ".txt">>

\* the dummy residuals file of the pass that skips preprocessing
dummy_residuals == <<"eval_grad", "residuals.txt">>

\* the save_kernels of run_adjoint_simulations
save_kernels(u) == <<"eval_grad", "kernels", u, _force, _cmpnt>>

\* bool() of a string
Truthy(s) == Len(s) > 0

\* the wildcard of prepare_data_for_solver
wc ==
    (IF In(<<"R", "R">>, kernels) THEN <<"R">> ELSE <<>>)
    \o (IF Truthy(<<"T", "T">>) THEN <<"T">> ELSE <<>>)

\* the directories of observed data a source has under path.data
DataDirs == {<<"Z", "Z">>, <<"R", "R">>, <<"T", "T">>}

\* the directories glob() matches for the force: ZZ, or [wc][wc]
dir_ ==
    IF _force = "Z" THEN {d \in DataDirs : d = <<"Z", "Z">>}
    ELSE {d \in DataDirs : In(<<d[1]>>, wc) /\ In(<<d[2]>>, wc)}

\* the functions of the pass: those of evaluate_initial_misfit, or the one
\* run_adjoint_simulations hands to system.run()
pass_list ==
    IF Instr.op = "misfit" THEN run_list(FALSE)
    ELSE <<"_run_adjoint_simulation_single">>

\* system.run() of a pass begins
PassSubmit ==
    /\ InBody({"misfit", "adjoint"})
    /\ PassCanRun
    /\ submit.state = "none"
    /\ submit' = [state |-> "running", only |-> FALSE, list |-> pass_list,
                  at |-> [u \in Units |-> 0]]
    /\ wrote' = {}
    /\ UNCHANGED <<noise, syn, adj, did, se, config, prepared, obs, data,
                   file_exists, file_lines, written, states, pc, i, n, err,
                   log, start>>

\* a unit of the running pass is to run the function next
NoiseUnitAt(u, function) ==
    /\ npc = "body"
    /\ submit.state = "running"
    /\ NextOf(u) = function

\* prepare_data_for_solver: traces/obs is emptied, then the files of the
\* matched directories are linked into it
NoisePrepare(u) ==
    /\ NoiseUnitAt(u, "prepare_data_for_solver")
    /\ data[u] /\ dir_ # {}
    /\ obs' = [obs EXCEPT ![u] = dir_]
    /\ wrote' = wrote \cup {<<u, trace_path(u, "obs", None)>>}
    /\ submit' = Advanced(u)
    /\ UNCHANGED <<noise, syn, adj, did, se, config, prepared, data,
                   file_exists, file_lines, written, states, pc, i, n, err,
                   log, start>>

\* run_forward_simulations: the synthetics of force Z go to traces/syn,
\* those of E and N to traces/syn_e and traces/syn_n
NoiseForward(u) ==
    /\ NoiseUnitAt(u, "run_forward_simulations")
    /\ _force # None
    /\ syn' = IF _force = "E" THEN [syn EXCEPT ![u].e = "new"]
              ELSE IF _force = "N" THEN [syn EXCEPT ![u].n = "new"]
              ELSE syn
    /\ wrote' = wrote \cup
                  {<<u, trace_path(u, "syn",
                                   IF _force = "Z" THEN None ELSE _force)>>}
    /\ submit' = Advanced(u)
    /\ UNCHANGED <<noise, adj, did, se, config, prepared, obs, data,
                   file_exists, file_lines, written, states, pc, i, n, err,
                   log, start>>

\* the files evaluate_objective_function writes
ObjectiveFiles(u) ==
    IF _force = "Z" THEN {trace_path(u, "adj", None)}
    ELSE IF syn[u].n = "none" \/ syn[u].e = "none"
    THEN {dummy_residuals}
    ELSE {trace_path(u, "syn", None), save_residuals(u),
          trace_path(u, "adj", None)}

\* evaluate_objective_function: force Z is preprocessed as it is; E and N
\* write a dummy residuals file while traces/syn_n or traces/syn_e is
\* empty, else rotate the synthetics and preprocess them
NoiseObjective(u) ==
    /\ NoiseUnitAt(u, "evaluate_objective_function")
    /\ did' = [did EXCEPT ![u] =
                 [force |-> _force,
                  what |-> IF _force = "Z" THEN "misfit"
                           ELSE IF syn[u].n = "none" \/ syn[u].e = "none"
                           THEN "dummy" ELSE "rotate",
                  e |-> syn[u].e, n |-> syn[u].n]]
    /\ wrote' = wrote \cup {<<u, f>> : f \in ObjectiveFiles(u)}
    /\ submit' = Advanced(u)
    /\ UNCHANGED <<noise, syn, adj, se, config, prepared, obs, data,
                   file_exists, file_lines, written, states, pc, i, n, err,
                   log, start>>

\* the symlinks in traces/adj when the solver is called: those of the pair
\* are made by unix.ln, which replaces the ones it finds or leaves them
Links(u, replaced) ==
    IF _force = "Z" THEN adj[u]
    ELSE IF replaced THEN {<<_force, _cmpnt>>}
    ELSE adj[u] \cup {<<_force, _cmpnt>>}

\* _run_adjoint_simulation_single returns: the symlinks in traces/adj are
\* removed after the simulation of E or N
NoiseAdjointSingle(u) ==
    /\ NoiseUnitAt(u, "_run_adjoint_simulation_single")
    /\ adj' = IF _force = "Z" THEN adj ELSE [adj EXCEPT ![u] = {}]
    /\ wrote' = wrote \cup {<<u, trace_path(u, "adj", None)>>,
                            <<u, save_kernels(u)>>}
    /\ submit' = Advanced(u)
    /\ UNCHANGED <<noise, syn, did, se, config, prepared, obs, data,
                   file_exists, file_lines, written, states, pc, i, n, err,
                   log, start>>

\* the task fails: system.run() raises, run() sets the task Failed, saves
\* and raises
TaskFails ==
    /\ nstates' = Put(nstates, nfunc, Failed)
    /\ npc' = "idle"
    /\ submit' = NoSubmit
    /\ UNCHANGED <<kernels, _force, _cmpnt, ni, sub, seen, passes>>

\* the adjoint simulation of a unit raises: the symlinks stay in traces/adj
NoiseAdjointRaise(u) ==
    /\ NoiseUnitAt(u, "_run_adjoint_simulation_single")
    /\ \E replaced \in BOOLEAN : adj' = [adj EXCEPT ![u] = Links(u, replaced)]
    /\ TaskFails
    /\ UNCHANGED <<syn, wrote, did, se, config, prepared, obs, data,
                   file_exists, file_lines, written, states, pc, i, n, err,
                   log, start>>

\* the forward simulation of a unit raises
NoiseForwardRaise(u) ==
    /\ NoiseUnitAt(u, "run_forward_simulations")
    /\ TaskFails
    /\ UNCHANGED <<scratch, config, prepared, obs, data,
                   file_exists, file_lines, written, states, pc, i, n, err,
                   log, start>>

\* every unit has run the whole list: system.run() returns and so does
\* evaluate_initial_misfit or run_adjoint_simulations
PassReturn ==
    /\ npc = "body"
    /\ submit.state = "running"
    /\ \A u \in Units : NextOf(u) = ""
    /\ passes' = Append(passes, <<Instr.op, _force, _cmpnt>>)
    /\ sub' = sub + 1
    /\ submit' = NoSubmit
    /\ UNCHANGED <<kernels, _force, _cmpnt, npc, ni, nstates, seen,
                   scratch, config, prepared, obs, data, file_exists,
                   file_lines, written, states, pc, i, n, err, log, start>>

\* a noise-inversion engine is about to be made over sources that have the
\* observed data of every kernel
InitNoiseUnits == InitNoise

NextNoiseUnits ==
    \/ NoiseNew
    \/ NoiseRunBegin
    \/ NoiseSkip
    \/ NoiseCall
    \/ NoiseSet
    \/ NoiseTest
    \/ NoiseOther
    \/ NoiseReturn
    \/ NoiseRunEnd
    \/ PassSubmit
    \/ PassReturn
    \/ \E u \in Units :
          \/ NoisePrepare(u)
          \/ NoiseForward(u)
          \/ NoiseObjective(u)
          \/ NoiseAdjointSingle(u)
          \/ NoiseAdjointRaise(u)
          \/ NoiseForwardRaise(u)

SpecNoiseUnits == InitNoiseUnits /\ [][NextNoiseUnits]_vars

(* ------------------- the source-encoded inversion --------------------- *)
\* the parameters check() gives a default, with that default; the None of
\* MAX_FREQ_SHIFT is written -1
SEDefaults ==
    [RANDOM_OVER_IT |-> 1, FREQ_INCREASE_PER_IT |-> 0, MAX_FREQ_SHIFT |-> -1,
     NFREQ_PER_EVENT |-> 1, NSRC |-> 1]

\* PAR after check(): a parameter that is not in PAR is set to its default
se_check(PAR) ==
    [key \in DOMAIN SEDefaults |->
        IF key \in DOMAIN PAR THEN PAR[key] ELSE SEDefaults[key]]

\* inversion_se.check()
SECheck ==
    /\ se.pc \in {"none", "idle"}
    /\ se' = [se EXCEPT !.pc = "idle", !.PAR = se_check(se.PAR)]
    /\ UNCHANGED <<noise, syn, adj, wrote, did, config, dispatch, prepared,
                   file_exists, file_lines, written, states, pc, i, n, err,
                   log, start>>

\* mutant: the iteration is not looked at
regenerate_IfRandom(PAR, iter) == PAR["RANDOM_OVER_IT"] # 0

\* `if PAR.RANDOM_OVER_IT or optimize.iter == 1`
regenerate(PAR, iter) == PAR["RANDOM_OVER_IT"] # 0 \/ iter = 1

\* initialize() begins: self.write_model(path=PATH.GRAD, suffix='new')
SEWriteModel ==
    /\ se.pc = "idle"
    /\ "RANDOM_OVER_IT" \in DOMAIN se.PAR
    /\ se' = [se EXCEPT !.pc = "model", !.calls = <<"write_model">>]
    /\ UNCHANGED <<noise, syn, adj, wrote, did, config, dispatch, prepared,
                   file_exists, file_lines, written, states, pc, i, n, err,
                   log, start>>

\* initialize(): self.get_random_frequencies(), or nothing
SEFrequencies ==
    /\ se.pc = "model"
    /\ se' = [se EXCEPT
                !.pc = "encoded",
                !.calls = IF regenerate(se.PAR, se.iter)
                          THEN Append(@, "get_random_frequencies")
                          ELSE @]
    /\ UNCHANGED <<noise, syn, adj, wrote, did, config, dispatch, prepared,
                   file_exists, file_lines, written, states, pc, i, n, err,
                   log, start>>

\* initialize(): system.run('solver', 'eval_func', ...) is called
SEDispatch ==
    /\ se.pc = "encoded"
    /\ se' = [se EXCEPT !.pc = "running", !.calls = Append(@, "system.run")]
    /\ UNCHANGED <<noise, syn, adj, wrote, did, config, dispatch, prepared,
                   file_exists, file_lines, written, states, pc, i, n, err,
                   log, start>>

\* system.run() returns
SEDispatchReturn ==
    /\ se.pc = "running"
    /\ se' = [se EXCEPT !.pc = "evaluated", !.calls = Append(@, "returned")]
    /\ UNCHANGED <<noise, syn, adj, wrote, did, config, dispatch, prepared,
                   file_exists, file_lines, written, states, pc, i, n, err,
                   log, start>>

\* system.run() raises, and so does initialize()
SEDispatchRaise ==
    /\ se.pc = "running"
    /\ se' = [se EXCEPT !.pc = "idle", !.calls = Append(@, "raised")]
    /\ UNCHANGED <<noise, syn, adj, wrote, did, config, dispatch, prepared,
                   file_exists, file_lines, written, states, pc, i, n, err,
                   log, start>>

\* initialize(): self.write_misfit(path=PATH.GRAD, suffix='new')
SEWriteMisfit ==
    /\ se.pc = "evaluated"
    /\ se' = [se EXCEPT !.pc = "initialized",
                        !.calls = Append(@, "write_misfit")]
    /\ UNCHANGED <<noise, syn, adj, wrote, did, config, dispatch, prepared,
                   file_exists, file_lines, written, states, pc, i, n, err,
                   log, start>>

\* the iteration ends: optimize.iter += 1
SEFinalize ==
    /\ se.pc = "initialized"
    /\ se.iter < MaxIter
    /\ se' = [se EXCEPT !.pc = "idle", !.iter = @ + 1]
    /\ UNCHANGED <<noise, syn, adj, wrote, did, config, dispatch, prepared,
                   file_exists, file_lines, written, states, pc, i, n, err,
                   log, start>>

\* the parameters file sets any of the parameters check() looks at
SEParameters ==
    UNION {[given -> 0..1] : given \in SUBSET DOMAIN SEDefaults}

\* a source-encoded inversion before check()
InitSE ==
    /\ se \in {[NoSE EXCEPT !.PAR = PAR] : PAR \in SEParameters}
    /\ syn = [u \in Units |-> [e |-> "none", n |-> "none"]]
    /\ adj = [u \in Units |-> {}]
    /\ wrote = {}
    /\ did = [u \in Units |-> NoDid]
    /\ kernels = <<"Z", "Z">>
    /\ _force = None
    /\ _cmpnt = None
    /\ npc = "none"
    /\ ni = 0
    /\ sub = 0
    /\ nstates = <<>>
    /\ seen = {}
    /\ passes = <<>>
    /\ submit = NoSubmit
    /\ obs = [u \in Units |-> {}]
    /\ data = [u \in Units |-> TRUE]
    /\ modules = [r \in Roles |-> "ok"]
    /\ generate_data = FALSE
    /\ model_true = "None"
    /\ checked = NoCall
    /\ stop_after = None
    /\ file_exists = FALSE /\ file_lines = <<>>
    /\ dirs = FALSE
    /\ set_up = NoCall
    /\ states = <<>>
    /\ pc = "none"
    /\ i = 0
    /\ n = 0
    /\ err = "none"
    /\ log = <<>>
    /\ start = NoStart
    /\ written = FALSE

NextSE ==
    \/ SECheck
    \/ SEWriteModel
    \/ SEFrequencies
    \/ SEDispatch
    \/ SEDispatchReturn
    \/ SEDispatchRaise
    \/ SEWriteMisfit
    \/ SEFinalize

SpecSE == InitSE /\ [][NextSE]_vars

(* --------------- construction over any state file --------------------- *)
\* mutant: a line that cannot be parsed is passed over
NewRaise_Lenient ==
    /\ pc \in {"none", "idle", "done", "raised", "exited", "killed", "broken"}
    /\ LoadFails(file_exists, file_lines)
    /\ states' = LoadLines(SelectSeq(file_lines, LAMBDA l : ~Unparsable(l)),
                           InitStates)
    /\ submit' = NoSubmit
    /\ pc' = "idle"
    /\ i' = 0 /\ n' = 0 /\ err' = "none" /\ log' = <<>> /\ start' = NoStart
    /\ UNCHANGED <<noise, scratch, config, obs, data, prepared, file_exists, file_lines, written>>

\* Forward.__init__ over a state file with a line it cannot parse: the
\* ValueError leaves __init__ and there is no engine
NewRaise ==
    /\ pc \in {"none", "idle", "done", "raised", "exited", "killed", "broken"}
    /\ LoadFails(file_exists, file_lines)
    /\ states' = <<>>
    /\ submit' = NoSubmit
    /\ pc' = "broken"
    /\ err' = "ValueError"
    /\ i' = 0 /\ n' = 0 /\ log' = <<>> /\ start' = NoStart
    /\ UNCHANGED <<noise, scratch, config, obs, data, prepared, file_exists, file_lines, written>>

\* state files with lines of any shape
LoadFiles ==
    UNION {[1..m -> InitLineSet \cup {BadLine(s) : s \in BadShapes}] :
              m \in 0..MaxInitLines}

InitLoad ==
    /\ submit = NoSubmit
    /\ NoNoise
    /\ obs = [u \in Units |-> {}]
    /\ data = [u \in Units |-> TRUE]
    /\ modules = [r \in Roles |-> "ok"]
    /\ generate_data = FALSE
    /\ model_true = "None"
    /\ checked = NoCall
    /\ stop_after = None
    /\ file_exists = TRUE /\ file_lines \in LoadFiles
    /\ dirs = FALSE
    /\ set_up = NoCall
    /\ states = <<>>
    /\ pc = "none"
    /\ i = 0
    /\ n = 0
    /\ err = "none"
    /\ log = <<>>
    /\ start = NoStart
    /\ written = FALSE

NextLoad ==
    \/ New
    \/ NewRaise
    \/ Setup
    \/ Checkpoint

SpecLoad == InitLoad /\ [][NextLoad]_vars

(* ------------------- vocabulary of the properties --------------------- *)
Events(kind) == SelectSeq(log, LAMBDA e : e[1] = kind)

Happened(kind, name) == \E k \in 1..Len(log) : log[k] = <<kind, name>>

IndexOf(name) == CHOOSE k \in 1..Len(task_list) : task_list[k] = name

\* what the state file said of a step when this run() call began; a step
\* the file did not name, or no file at all, reads as Pending
StartStatus(name) ==
    IF start.exists /\ Named(start.lines, name)
    THEN CHOOSE v \in {Pending, Complete, Failed} :
            Recorded(start.lines, name, v)
    ELSE Pending

\* the for loop has decided about step k: it skipped it or called it
Reached(k) ==
    \/ k < i
    \/ k = i /\ pc \in {"func", "raised", "exited"}

InRun == pc \in {"loop", "func", "final"}

\* run() left the loop at a `break` before the last step
StoppedEarly == Len(Events("break")) > 0 /\ i <= Len(task_list)

ToDoAtStart == SelectSeq(task_list, LAMBDA t : StartStatus(t) # Complete)

(* ------------------------------ claims -------------------------------- *)

\* what the property below asks of every state
PartialFailurePersistence ==
    (pc = "raised" /\ start.exists
        /\ \A t \in Tasks : StartStatus(t) = Pending)
    => /\ err = "StepError"
       /\ Happened("raise", task_list[i])
       /\ \A k \in 1..Len(task_list) :
            FileSays(task_list[k],
                IF k < i THEN Complete ELSE IF k = i THEN Failed ELSE Pending)

\* C1  Partial-failure persistence.  When run() began over an existing state
\* file in which every step was Pending and was aborted by a step that
\* raised, the file records every step before that step as Complete, that
\* step as Failed and every step after it as Pending, and run() raised the
\* step's error.
C1_PartialFailurePersistence == []PartialFailurePersistence

\* [A, B, C]: A returned, B raised, C was never reached
C1_Witness ==
    /\ pc = "raised" /\ start.exists /\ i = 2
    /\ \A t \in Tasks : StartStatus(t) = Pending
    /\ Executed = SubSeq(task_list, 1, 2)
    /\ FileSays(task_list[1], Complete)
    /\ FileSays(task_list[2], Failed)
    /\ FileSays(task_list[3], Pending)

\* what the property below asks of every state
FailFast ==
    (Len(Events("raise")) > 0 /\ pc # "killed" /\ start.exists)
    => /\ pc = "raised"
       /\ err = "StepError"
       /\ Len(Events("raise")) = 1
       /\ Len(Events("except")) = 1
       /\ Get(states, task_list[i]) = Failed
       /\ FileSays(task_list[i], Failed)
       /\ Executed[Len(Executed)] = task_list[i]
       /\ Events("raise")[1][2] = task_list[i]
       /\ SubSeq(log, Len(log) - 2, Len(log))
            = << <<"raise", task_list[i]>>, <<"except", task_list[i]>>,
                 <<"checkpoint", task_list[i]>> >>

\* C2  Fail-fast.  Once a step has raised in a run() call over an existing
\* state file (and the process was not killed), run() is over and has
\* raised the step's error; the handler ran exactly once; the step is Failed
\* in memory and in the file; the raising step is the last step called.
C2_FailFast == []FailFast

\* the first step returned, the second raised, a third step exists
C2_Witness ==
    /\ pc = "raised" /\ err = "StepError" /\ start.exists
    /\ i = 2 /\ i < Len(task_list)
    /\ Happened("return", task_list[1])
    /\ Happened("raise", task_list[2])

\* what the property below asks of every state
ResumedRetry ==
    (pc = "done" /\ ~StoppedEarly)
    => /\ Executed = ToDoAtStart
       /\ n = Len(ToDoAtStart)
       /\ \A t \in Tasks : FileSays(t, Complete)

\* C3  Resumed retry.  A run() call that ends normally and was not cut short
\* by stop_after has called exactly the steps the state file did not record
\* as Complete when the call began, in task-list order; it reports their
\* number, and the file then records every step as Complete.
C3_ResumedRetry == []ResumedRetry

\* a new engine over A:1, B:-1, C:0 ran B then C and reports 2
C3_Witness ==
    /\ pc = "done" /\ start.first /\ start.exists
    /\ StartStatus(task_list[1]) = Complete
    /\ StartStatus(task_list[2]) = Failed
    /\ \A k \in 3..Len(task_list) : StartStatus(task_list[k]) = Pending
    /\ Executed = SubSeq(task_list, 2, Len(task_list))
    /\ n = Len(task_list) - 1
    /\ \A t \in Tasks : FileSays(t, Complete)

\* C4  Resume idempotence.  When the state file is as a checkpoint left it
\* and records every step as Complete, a run() call that ends normally has
\* called no step, reports 0 and leaves the file's lines as they were.
C4_ResumeIdempotence ==
    (pc = "done" /\ start.exists /\ start.written
        /\ \A t \in Tasks : StartStatus(t) = Complete)
    => /\ Executed = <<>>
       /\ n = 0
       /\ file_lines = start.lines

\* a new engine ran over the file of a completed run
C4_Witness ==
    /\ pc = "done" /\ start.first /\ start.exists /\ start.written
    /\ \A t \in Tasks : StartStatus(t) = Complete
    /\ Len(Events("skip")) = Len(task_list)
    /\ file_lines = start.lines

\* C5  Skip-if-Complete.  A step the loop has reached was called in this
\* run() call if and only if its status in _states was not Complete (a
\* step's status changes only when the step itself is called, so its
\* status when the loop reached it is its status when run() began).
C5_SkipIfComplete ==
    \A k \in 1..Len(task_list) :
        Reached(k) =>
            /\ Get(start.states, task_list[k]) = Complete
                => (Happened("skip", task_list[k])
                        /\ ~Happened("call", task_list[k]))
            /\ Get(start.states, task_list[k]) # Complete
                => (Happened("call", task_list[k])
                        /\ ~Happened("skip", task_list[k]))

\* a Complete step was skipped between two steps that were called, one of
\* them Failed before
C5_Witness ==
    /\ pc = "done"
    /\ Get(start.states, task_list[1]) = Failed
    /\ Get(start.states, task_list[2]) = Complete
    /\ Get(start.states, task_list[3]) = Pending
    /\ Happened("call", task_list[1])
    /\ Happened("skip", task_list[2])
    /\ Happened("call", task_list[3])

\* C6  stop-after truncation.  In a run() call over an existing state file,
\* once the step named by stop_after has returned, the loop is over and
\* run() does not raise; that step is the last step called; and unless the
\* process is killed the file records it as Complete and every later step
\* with the status it had when run() began.
C6_StopAfterTruncation ==
    (stop_after # None /\ Happened("return", stop_after) /\ start.exists)
    => /\ pc \in {"final", "done", "killed"}
       /\ Executed[Len(Executed)] = stop_after
       /\ \A k \in 1..IndexOf(stop_after) :
            Get(start.states, task_list[k]) # Complete
                => Happened("call", task_list[k])
       /\ \A k \in (IndexOf(stop_after) + 1)..Len(task_list) :
            /\ ~Happened("call", task_list[k])
            /\ ~Happened("skip", task_list[k])
       /\ pc = "done" =>
            /\ err = "none"
            /\ FileSays(stop_after, Complete)
            /\ \A k \in (IndexOf(stop_after) + 1)..Len(task_list) :
                 FileSays(task_list[k], Get(start.states, task_list[k]))

\* [A, B, C] with stop_after = B: A and B ran, C is still Pending
C6_Witness ==
    /\ pc = "done" /\ stop_after = task_list[2] /\ start.exists
    /\ \A t \in Tasks : StartStatus(t) = Pending
    /\ Executed = SubSeq(task_list, 1, 2)
    /\ n = 2
    /\ FileSays(task_list[1], Complete)
    /\ FileSays(task_list[2], Complete)
    /\ FileSays(task_list[3], Pending)

\* C7  Persist-before-advance.  While run() is in its loop or about to leave
\* it, and in particular while a step is executing, every step that has
\* returned in this call is recorded as Complete in the state file.
C7_PersistBeforeAdvance ==
    InRun =>
        \A k \in 1..Len(log) :
            log[k][1] = "return" => FileSays(log[k][2], Complete)

\* the second step is executing, the first has returned in this call
C7_Witness ==
    /\ pc = "func" /\ i = 2
    /\ Happened("return", task_list[1])
    /\ StartStatus(task_list[1]) # Complete
    /\ FileSays(task_list[1], Complete)

\* C8  Crash tolerance, as claimed: when the process has been killed, the
\* state file records as Complete every step before the in-flight one.
C8_CrashTolerance ==
    pc = "killed" =>
        \A k \in 1..(i - 1) : k <= Len(task_list)
            => FileSays(task_list[k], Complete)

\* the discipline of the calls of one run(), as a predicate of the state
RetryDiscipline ==
    /\ LET at == [k \in 1..Len(Executed) |-> IndexOf(Executed[k])]
       IN  \A a, b \in 1..Len(at) : a < b => at[a] < at[b]
    /\ LET calls == {q \in 1..Len(log) : log[q][1] = "call"}
       IN  \A q \in calls :
            /\ \A k \in 1..(IndexOf(log[q][2]) - 1) :
                 \/ Happened("skip", task_list[k])
                 \/ \E r \in 1..(q - 1) : log[r] = <<"return", task_list[k]>>
            /\ \A r \in 1..(q - 1) : log[r][1] \notin {"raise", "except"}
            /\ \A p \in calls :
                 p < q =>
                    \E r \in (p + 1)..(q - 1) : log[r] = <<"return", log[p][2]>>
    /\ pc = "func" => \A k \in 1..(i - 1) : Get(states, task_list[k]) = Complete
    /\ \A k \in 1..Len(task_list) :
         (Reached(k) /\ Get(start.states, task_list[k]) = Failed)
            => Happened("call", task_list[k])

\* C9  Retry discipline.  Within one run() call the steps called are in
\* task-list order without repetition; a step is called only when every
\* step before it in the list is Complete and nothing has raised in this
\* call; between two calls the earlier step has returned; and a step that
\* was Failed when run() began is called when the loop reaches it.
C9_RetryDiscipline == []RetryDiscipline

\* a step the state file recorded as Failed is being executed again by a
\* new engine, after the step before it was called and has returned
C9_Witness ==
    /\ pc = "func" /\ i = 2
    /\ start.first
    /\ StartStatus(task_list[2]) = Failed
    /\ Executed = <<task_list[1], task_list[2]>>
    /\ log = << <<"call", task_list[1]>>, <<"return", task_list[1]>>,
                <<"checkpoint", task_list[1]>>, <<"call", task_list[2]>> >>

\* C10  Executed-step count.  When run() has ended normally, its last act
\* was a checkpoint made after the loop, one more than the steps it called;
\* the file agrees with _states; and n is the number of steps called in this
\* call, which is the number of reached steps that were not Complete.
C10_ExecutedStepCount ==
    pc = "done" =>
        /\ n = Len(Executed)
        /\ n = Len(Events("return"))
        /\ n = Cardinality({k \in 1..Len(task_list) :
                    Reached(k) /\ Get(start.states, task_list[k]) # Complete})
        /\ log[Len(log)] = <<"checkpoint", "">>
        /\ Len(Events("checkpoint")) = n + 1
        /\ \A k \in 1..Len(states) : FileSays(states[k][1], states[k][2])

\* one step skipped and the others called: n counts the called ones only
C10_Witness ==
    /\ pc = "done"
    /\ Len(Events("skip")) = 1
    /\ n = Len(task_list) - 1
    /\ Len(Events("checkpoint")) = Len(task_list)

\* the items of the dict that carry the name
ItemsOf(st, key) == {k \in 1..Len(st) : st[k][1] = key}

\* C11  Ledger coverage.  From construction onward _states holds exactly one
\* item for every step of the task list, whatever run() and checkpoint()
\* calls were made; and in an engine just constructed every step the state
\* file does not name (or every step, when there is no file) is Pending.
C11_LedgerCoverage ==
    pc # "none" =>
        /\ \A t \in Tasks : Cardinality(ItemsOf(states, t)) = 1
        /\ (pc = "idle" /\ log = <<>>) =>
              \A t \in Tasks :
                 ~(file_exists /\ Named(file_lines, t))
                    => Get(states, t) = Pending

\* an engine built over a file that names the first step only: the first
\* step has the file's status, the last step is Pending
C11_Witness ==
    /\ pc = "idle" /\ file_exists /\ ~written
    /\ FileSays(task_list[1], Complete)
    /\ \A t \in Tasks \ {task_list[1]} : ~Named(file_lines, t)
    /\ Get(states, task_list[1]) = Complete
    /\ Get(states, task_list[Len(task_list)]) = Pending
    /\ Len(states) = Len(task_list)

\* what the property below asks of every state
UnknownNameTolerance ==
    /\ \A u \in UnknownNames :
         /\ (pc # "none" /\ file_exists /\ Named(file_lines, u))
               => Has(states, u) /\ FileSays(u, Get(states, u))
         /\ (pc \in {"loop", "func", "final", "done", "raised"}
                /\ start.exists /\ Named(start.lines, u))
               => /\ Cardinality(ItemsOf(states, u)) = 1
                  /\ Recorded(start.lines, u, Get(states, u))
                  /\ FileSays(u, Get(states, u))
    /\ \A k \in 1..Len(task_list) :
         (pc \notin {"none", "idle"} /\ Reached(k)) =>
            /\ Happened("skip", task_list[k])
                  <=> Get(start.states, task_list[k]) = Complete
            /\ Happened("call", task_list[k])
                  <=> Get(start.states, task_list[k]) # Complete

\* C12  Unknown-name tolerance.  A name outside the task list that the state
\* file records is an item of _states with the file's status, and stays so
\* in memory and in the file through run() and checkpoint(); which steps
\* run() skips and which it calls follows from the steps' own statuses only.
C12_UnknownNameTolerance == []UnknownNameTolerance

\* the file recorded an unknown name as Complete and no step; run() called
\* every step and the file still records the unknown name as Complete
C12_Witness ==
    /\ pc = "done" /\ start.exists
    /\ \E u \in UnknownNames :
         /\ Recorded(start.lines, u, Complete)
         /\ FileSays(u, Complete)
         /\ Get(states, u) = Complete
    /\ Executed = task_list
    /\ Len(states) = Len(task_list) + 1

\* the "#" lines of a content, in order
CommentLines(lines) == SelectSeq(lines, LAMBDA line : line[1] = "hdr")

\* a step that ends a checkpoint(): of run(), or called on its own
CheckpointDone ==
    /\ file_exists
    /\ pc' # "killed"
    /\ file_lines' # file_lines \/ written'

FullRewrite ==
    (written /\ pc # "none") =>
        LET h == Len(CommentLines(file_lines))
        IN  /\ Len(file_lines) = h + Len(states)
            /\ \A k \in 1..h : file_lines[k][1] = "hdr"
            /\ \A k \in 1..Len(states) :
                 /\ file_lines[h + k][1] = "rec"
                 /\ file_lines[h + k][2] = states[k][1]
                 /\ IntOf(file_lines[h + k][3]) = states[k][2]
            /\ \A a, b \in 1..Len(file_lines) :
                 (a # b /\ file_lines[a][1] = "rec" /\ file_lines[b][1] = "rec")
                    => file_lines[a][2] # file_lines[b][2]

\* C14  Full rewrite.  A file as a checkpoint() left it is its "#" lines
\* followed by one line per item of _states, in the order of the dict, and
\* names no key on two lines.
C14_FullRewrite == []FullRewrite

\* the file named the first step on two lines when run() began; after the
\* checkpoints of the run it names every step on one line
C14_Witness ==
    /\ pc = "done" /\ written /\ start.exists /\ ~start.written
    /\ Len(start.lines) = 2
    /\ \A k \in 1..2 :
         start.lines[k][1] = "rec" /\ start.lines[k][2] = task_list[1]
    /\ Len(file_lines) = Len(task_list)
    /\ n > 0

\* the check() calls of modules that the latest check() made, in order
ModuleChecks ==
    SelectSeq(checked.calls, LAMBDA e : e[1] = "check")

Failures == {"AssertionError", "ModuleError"}

\* C15 as stated.  Whenever a required role is unset, check() raises before
\* it has invoked the check() of any module.
C15_GateBeforeAnyCheck ==
    (checked.result # "none"
        /\ \E r \in Range(required_modules) : modules[r] = "unset")
    => /\ checked.result \in Failures
       /\ ModuleChecks = <<>>

\* C15  Required-role gate, amended.  Whenever a required role is unset,
\* check() raises, and the only check() calls of modules it has made are
\* those of the required roles before the unset role in the order system,
\* solver; with the first role unset it has made none.
C15_RequiredRoleGate ==
    \A k \in 1..Len(required_modules) :
        (checked.result # "none" /\ modules[required_modules[k]] = "unset")
        => /\ checked.result \in Failures
           /\ \A e \in Range(ModuleChecks) :
                \E j \in 1..(k - 1) : e[2] = required_modules[j]
           /\ k = 1 => checked.calls = <<>>

\* solver is unset and system is set: check() has called system.check() and
\* then failed the assertion on solver
C15_Witness ==
    /\ modules["system"] = "ok" /\ modules["solver"] = "unset"
    /\ checked = [calls |-> << <<"check", "system">> >>,
                  result |-> "AssertionError"]

\* C16  stop_after validation.  A check() of an engine whose stop_after is
\* set and names no step of the task list fails; and neither __init__ nor
\* check() changes the state file, makes a directory, or executes a step.
C16_StopAfterValidation ==
    /\ [](  (checked.result # "none" /\ stop_after # None
                /\ \A k \in 1..Len(task_list) : task_list[k] # stop_after)
            => checked.result \in Failures )
    /\ [][ /\ New => UNCHANGED <<file_exists, file_lines, dirs, model_true>>
           /\ Check => UNCHANGED <<file_exists, file_lines, dirs, model_true,
                                   states, log, n, set_up>>
         ]_vars

\* every role is set and passes its check(), stop_after names no step:
\* check() has failed after the modules' checks, and there is still no
\* state file and no directory
C16_Witness ==
    /\ pc = "idle"
    /\ stop_after \in UnknownNames
    /\ \A r \in Roles : modules[r] = "ok"
    /\ ~generate_data
    /\ checked.result = "AssertionError"
    /\ Len(ModuleChecks) = 3
    /\ ~file_exists /\ ~dirs /\ set_up = NoCall

\* C17  Optional role.  When check() has passed the required roles: if
\* preprocess is set its check() was invoked and no warning given; if it is
\* unset its check() was not invoked, a warning was given, and check() fails
\* only for a stop_after that names no step.
C17_OptionalRole ==
    (checked.result # "none"
        /\ \A r \in Range(required_modules) : modules[r] = "ok")
    => \A o \in Range(optional_modules) :
         IF modules[o] # "unset"
         THEN /\ <<"check", o>> \in Range(checked.calls)
              /\ <<"warning", o>> \notin Range(checked.calls)
         ELSE /\ <<"check", o>> \notin Range(checked.calls)
              /\ <<"warning", o>> \in Range(checked.calls)
              /\ checked.result = "ok"
                    <=> stop_after \in {None} \cup Tasks

\* preprocess is unset, generate_data is set and there is no target model:
\* check() has warned and has passed
C17_Witness ==
    /\ modules["preprocess"] = "unset"
    /\ generate_data /\ model_true = "None"
    /\ checked = [calls |-> << <<"check", "system">>, <<"check", "solver">>,
                               <<"warning", "preprocess">> >>,
                  result |-> "ok"]

\* C18  Generate-data precondition.  With preprocess set and generate_data
\* set, a check() that has passed found the path of the target model set
\* and existing, and a check() made while the path is unset or missing has
\* failed.
C18_GenerateDataPrecondition ==
    (checked.result # "none" /\ modules["preprocess"] # "unset"
        /\ generate_data)
    => /\ checked.result = "ok" => model_true = "exists"
       /\ model_true # "exists" => checked.result \in Failures

\* every module passes its check(), generate_data is set and the path of
\* the target model does not exist: check() has failed
C18_Witness ==
    /\ \A r \in Roles : modules[r] = "ok"
    /\ generate_data /\ model_true = "missing"
    /\ stop_after = None
    /\ checked.result = "AssertionError"
    /\ Len(ModuleChecks) = 3
    /\ set_up = NoCall

\* where the latest setup() called the setup() of the role
SetupAt(r) == {k \in 1..Len(set_up.calls) : set_up.calls[k] = <<"setup", r>>}

\* C19  setup() ordering.  setup() calls nothing but the setup() of roles,
\* of no role twice, of no unset role, and of a required role before that
\* of an optional one; a setup() that has returned has called the setup()
\* of every required role and of every optional role that is set.
C19_SetupOrdering ==
    set_up.result # "none" =>
        /\ \A k \in 1..Len(set_up.calls) :
             set_up.calls[k][1] = "setup" /\ set_up.calls[k][2] \in Roles
        /\ \A r \in Roles :
             /\ Cardinality(SetupAt(r)) <= 1
             /\ modules[r] = "unset" => SetupAt(r) = {}
        /\ \A o \in Range(optional_modules) : \A r \in Range(required_modules) :
             \A a \in SetupAt(o) : \E b \in SetupAt(r) : b < a
        /\ set_up.result = "ok" =>
             /\ \A r \in Range(required_modules) : SetupAt(r) # {}
             /\ \A o \in Range(optional_modules) :
                  modules[o] # "unset" => SetupAt(o) # {}

\* every role is set: system, solver, preprocess, in this order
C19_Witness ==
    /\ modules["preprocess"] # "unset"
    /\ set_up = [calls |-> << <<"setup", "system">>, <<"setup", "solver">>,
                              <<"setup", "preprocess">> >>,
                 result |-> "ok"]

\* C20  Ledger initialization.  A setup() that finds a state file leaves
\* its content as it is, and _states too; a setup() that finds none and
\* returns leaves a file of the fixed header lines and no record.
C20_LedgerInitialization ==
    [][ Setup =>
          IF file_exists
          THEN UNCHANGED <<file_exists, file_lines, states>>
          ELSE set_up'.result = "ok" =>
                  /\ file_exists'
                  /\ file_lines' = SetupHeader
                  /\ \A k \in 1..Len(file_lines') : file_lines'[k][1] = "hdr"
                  /\ states' = states
      ]_vars

\* setup() has returned in a world whose state file records a Complete
\* step: the record is still there
C20_Witness ==
    /\ set_up.result = "ok" /\ dirs
    /\ FileSays(task_list[1], Complete)
    /\ pc = "idle" /\ Get(states, task_list[1]) = Complete

\* this run() call has begun, whatever became of it
RunBegun == pc \in {"loop", "func", "final", "done", "raised", "exited",
                    "killed"}

\* what the property below asks of every state
StopAfterAlreadyComplete ==
    /\ (RunBegun /\ stop_after \in Tasks
            /\ Get(start.states, stop_after) = Complete)
       => /\ Events("break") = <<>>
          /\ Reached(IndexOf(stop_after)) => Happened("skip", stop_after)
          /\ ~Happened("call", stop_after)
          /\ pc \in {"final", "done"} => i = Len(task_list) + 1
    /\ (RunBegun /\ Events("break") # <<>>)
       => /\ Events("break") = << <<"break", stop_after>> >>
          /\ Happened("call", stop_after)
          /\ Happened("return", stop_after)

\* C26  stop_after on a Complete step.  When the step stop_after names was
\* Complete as run() began, run() skips it, never breaks, and leaves the
\* loop only after its last step; and a break is made only by a call that
\* has called the stop_after step and seen it return.
C26_StopAfterAlreadyComplete == []StopAfterAlreadyComplete

\* stop_after names the first step, which was Complete: run() has skipped
\* it and executed the steps after it
C26_Witness ==
    /\ pc = "done"
    /\ stop_after = task_list[1]
    /\ Get(start.states, stop_after) = Complete
    /\ Happened("skip", stop_after)
    /\ Executed = SubSeq(task_list, 2, Len(task_list))

\* C27 as stated.  A step that is Failed in _states during or after a run()
\* call was Failed when the call began or its function has raised in it.
C27_FailedOnlyIfRaised ==
    \A t \in Tasks :
        (RunBegun /\ Get(states, t) = Failed)
        => \/ Get(start.states, t) = Failed
           \/ Happened("raise", t)

\* C28  Complete is absorbing.  No step of run(), checkpoint(), setup() or
\* __init__ takes the status Complete of a name away from the state file.
C28_CompleteAbsorbing ==
    [][ pc' # "killed" =>
          \A t \in Tasks \cup UnknownNames :
             FileSays(t, Complete)
                => file_exists' /\ Recorded(file_lines', t, Complete)
      ]_vars

\* the file recorded the first step as Complete and the second as Failed
\* when run() began; run() has executed the others and the file records
\* every step as Complete
C28_Witness ==
    /\ pc = "done" /\ start.exists
    /\ Recorded(start.lines, task_list[1], Complete)
    /\ Recorded(start.lines, task_list[2], Failed)
    /\ Executed = SubSeq(task_list, 2, Len(task_list))
    /\ \A t \in Tasks : FileSays(t, Complete)

\* C29  Round trip.  The content a checkpoint() of _states writes is read
\* back by __init__ as the same _states, and a checkpoint() of what was
\* read leaves that content as it is.
C29_RoundTrip ==
    (pc # "none" /\ file_exists) =>
        LET saved == checkpoint(file_lines, states)
            loaded == LoadStates(TRUE, saved)
        IN  /\ loaded = states
            /\ checkpoint(saved, loaded) = saved

\* an engine built over the file a checkpoint() left, with a Failed step, a
\* Pending step and an unknown name that is Complete
C29_Witness ==
    /\ pc = "idle" /\ written
    /\ states = LoadStates(file_exists, file_lines)
    /\ \E t \in Tasks : Get(states, t) = Failed
    /\ \E t \in Tasks : Get(states, t) = Pending
    /\ \E u \in UnknownNames : Has(states, u) /\ Get(states, u) = Complete

\* C30  Progress.  A run() call that began over an existing state file,
\* whatever it recorded, ends normally with every step of the task list
\* recorded as Complete in the file, when every function returns and no
\* stop_after is configured.
C30_Progress ==
    (pc = "loop" /\ i = 1 /\ start.exists)
        ~> (pc = "done" /\ \A t \in Tasks : FileSays(t, Complete))

\* a run() that began over a file with a Failed step and no other record
\* has ended with every step Complete
C30_Witness ==
    /\ pc = "done" /\ start.exists /\ stop_after = None
    /\ StartStatus(task_list[1]) = Failed
    /\ \A t \in Tasks \ {task_list[1]} : ~Named(start.lines, t)
    /\ n = Len(task_list)
    /\ \A t \in Tasks : FileSays(t, Complete)

\* C21  Ledger parse error.  Every step taken while the state file holds a
\* line that is not a header and not "name: integer" is a construction that
\* ends in ValueError with no engine, and leaves the file as it is, the
\* records around the line included.
C21_LedgerParseError ==
    [][ (file_exists /\ \E k \in 1..Len(file_lines) :
                           file_lines[k][1] = "bad")
        => /\ pc' = "broken" /\ err' = "ValueError" /\ states' = <<>>
           /\ UNCHANGED <<file_exists, file_lines>>
      ]_vars

\* a Complete record, then a line that cannot be parsed: construction has
\* failed and both lines are in the file
C21_Witness ==
    /\ pc = "broken" /\ err = "ValueError"
    /\ file_exists
    /\ Len(file_lines) = 2
    /\ file_lines[1] = RecLine(task_list[1], "1")
    /\ file_lines[2][1] = "bad"

\* a unit is about to look for data and has none, neither in traces/obs nor
\* under path.data
MissingAt(u) ==
    /\ submit.state = "running"
    /\ NextOf(u) = "prepare_data_for_solver"
    /\ ~HasObs(u) /\ ~data[u]

\* the engine is inside the step, where that unit can act
MissingData(u) == pc = "func" /\ MissingAt(u)

\* C22  Single writer.  Every step that changes the state file is taken
\* while no system.run() is in progress, and no step of a unit changes it:
\* the writes are those of setup(), of checkpoint() in run() between two
\* functions, and of checkpoint() called on its own outside run().
C22_SingleWriter ==
    [][ (file_lines' # file_lines \/ file_exists' # file_exists)
        => /\ submit.state # "running"
           /\ submit'.state # "running"
           /\ pc \in Resting \cup {"func", "final"}
      ]_vars

\* system.run() of the second step is in progress, a unit has run a
\* function, and the file is as the checkpoint after the first step left it
C22_Witness ==
    /\ pc = "func" /\ i = 2
    /\ submit.state = "running"
    /\ \E u \in Units : submit.at[u] > 0
    /\ written
    /\ FileSays(task_list[1], Complete)
    /\ FileSays(task_list[2], Pending)

\* C25  Missing observed data.  A unit that finds no data never gets past
\* prepare_data_for_solver: the process ends with SystemExit, the step is
\* not set Failed, and after the exit nothing runs but a new process.
C25_MissingDataFatal ==
    /\ [][ \A u \in Units :
             MissingData(u) =>
                /\ submit'.at[u] = submit.at[u]
                /\ obs'[u] = obs[u]
         ]_vars
    /\ []( (pc = "exited" /\ submit.state = "running")
           => /\ err = "SystemExit"
              /\ \E u \in Units : MissingAt(u)
              /\ log[Len(log)] = <<"exit", func>>
              /\ Get(states, func) = Get(start.states, func) )
    /\ [][ pc = "exited" => pc' = "idle" /\ log' = <<>> ]_vars

\* the second unit found no data after the first unit had run the whole
\* list: the process has exited inside the first step
C25_Witness ==
    /\ pc = "exited" /\ err = "SystemExit" /\ i = 1
    /\ submit.state = "running"
    /\ submit.at[UnitNames[1]] = Len(submit.list)
    /\ MissingAt(UnitNames[2])
    /\ Get(states, func) = Pending

\* the kernel is one of the names listed in `kernels`, in any case
Requested(name) == name \in Range(Split(Upper(kernels)))

\* the tasks that generate kernels
KernelTasks == {"generate_zz_kernels", "generate_tt_rr_kernels"}

\* C23  Transient context.  Every pass a kernel task delegates to runs with
\* a force that is set, and when the kernel task returns it leaves _force and
\* _cmpnt unset, so that the next task of the run finds none.
C23_ContextTransient ==
    /\ [][ (InBody({"misfit", "adjoint"}) /\ passes' # passes)
           => _force # None ]_vars
    /\ [][ (npc = "body" /\ npc' = "loop" /\ nfunc \in KernelTasks)
           => (_force' = None /\ _cmpnt' = None) ]_vars

\* C24  Task-list composition.  In a constructed engine the task list has
\* generate_zz_kernels iff ZZ is requested and generate_tt_rr_kernels iff TT
\* or RR is requested, the first before the second, nothing else before the
\* five standard tasks, which end the list in their order; no name occurs
\* twice, and every access since construction returned this same list.
C24_TaskListComposition ==
    npc # "none" =>
        LET tl == noise_task_list
            lead == Len(tl) - Len(StandardTasks)
        IN  /\ ("generate_zz_kernels" \in Range(tl))
                 <=> Requested(<<"Z", "Z">>)
            /\ ("generate_tt_rr_kernels" \in Range(tl))
                 <=> (Requested(<<"T", "T">>) \/ Requested(<<"R", "R">>))
            /\ \A a, b \in 1..Len(tl) :
                  (tl[a] = "generate_zz_kernels"
                     /\ tl[b] = "generate_tt_rr_kernels") => a < b
            /\ lead >= 0
            /\ SubSeq(tl, lead + 1, Len(tl)) = StandardTasks
            /\ \A a \in 1..lead : tl[a] \in KernelTasks
            /\ \A a, b \in 1..Len(tl) : tl[a] = tl[b] => a = b
            /\ seen = {tl}
            /\ \A k \in 1..Len(nstates) : nstates[k][1] = tl[k]

\* RR is requested and ZZ is not: the list of six tasks has
\* been read by __init__ and by run(), and its first task is running
C24_Witness ==
    /\ npc = "body" /\ ni = 1
    /\ nfunc = "generate_tt_rr_kernels"
    /\ kernels = <<"R", "R">>
    /\ ~Requested(<<"Z", "Z">>)
    /\ Len(noise_task_list) = 6
    /\ seen = {noise_task_list}

\* C31  Dispatch list.  Without a preprocess module evaluate_initial_misfit
\* hands only run_forward_simulations to the dispatcher and no unit's
\* observations are touched; with the module it hands
\* prepare_data_for_solver, run_forward_simulations and
\* evaluate_objective_function in this order, or the first and the last
\* only under _preproc_only; every unit runs the list in its order.
C31_DispatchList ==
    /\ [](submit.state # "none" =>
            IF modules["preprocess"] = "unset"
            THEN submit.list = <<"run_forward_simulations">>
            ELSE IF submit.only
            THEN submit.list = <<"prepare_data_for_solver",
                                 "evaluate_objective_function">>
            ELSE submit.list = <<"prepare_data_for_solver",
                                 "run_forward_simulations",
                                 "evaluate_objective_function">>)
    /\ [][modules["preprocess"] = "unset" => obs' = obs]_vars
    /\ [][(submit.state = "running" /\ submit'.state # "none") =>
            /\ submit'.list = submit.list
            /\ \A u \in Units :
                 submit'.at[u] \in {submit.at[u], submit.at[u] + 1}]_vars

\* no preprocess module: the dispatcher has returned after every unit ran
\* the forward simulation and nothing else
C31_Witness ==
    /\ modules["preprocess"] = "unset"
    /\ pc = "func"
    /\ submit.state = "returned"
    /\ submit.list = <<"run_forward_simulations">>
    /\ \A u \in Units : submit.at[u] = 1 /\ ~HasObs(u)

\* C32  Missing data and the ledger.  From the call of a step to the exit
\* of the process inside it nothing touches _states or the state file, no
\* handler runs, and what a new engine loads from the file has the step not
\* Complete and every step before it Complete: the next run() passes over
\* those and calls the step again.
C32_ExitLeavesLedger ==
    /\ [][(pc = "func" /\ pc' \in {"func", "exited"})
            => UNCHANGED <<states, file_exists, file_lines>>]_vars
    /\ []((pc = "exited" /\ submit.state = "running") =>
            LET loaded == LoadStates(file_exists, file_lines)
            IN  /\ ~Happened("except", func)
                /\ Get(states, func) # Failed \/ Get(start.states, func) = Failed
                /\ Get(states, func) = Get(start.states, func)
                /\ ~LoadFails(file_exists, file_lines)
                /\ Get(loaded, func) # Complete
                /\ Get(loaded, func) = Get(start.states, func)
                /\ \A k \in 1..(i - 1) : Get(loaded, task_list[k]) = Complete)

\* the process exited inside the second step for want of data; the file
\* records the first step as Complete and the second as Pending still
C32_Witness ==
    /\ pc = "exited" /\ i = 2
    /\ submit.state = "running"
    /\ \E u \in Units : MissingAt(u)
    /\ FileSays(task_list[1], Complete)
    /\ FileSays(task_list[2], Pending)
    /\ Get(states, task_list[2]) = Pending

\* C39  Existing observations.  A unit whose traces/obs has files and
\* that is to run prepare_data_for_solver leaves traces/obs and the data at
\* the source as they are, whether or not there is data at the source; if
\* the process exits meanwhile, it is for another unit that has neither.
C39_ObsNotOverwritten ==
    [][\A u \in Units :
         (UnitAt(u, "prepare_data_for_solver") /\ HasObs(u)) =>
            /\ obs'[u] = obs[u]
            /\ data'[u] = data[u]
            /\ pc' = "exited" => \E v \in Units : v # u /\ MissingAt(v)
            /\ pc' \in {"func", "exited"}
      ]_vars

\* a unit with observations of its own and no data at the source has
\* returned from prepare_data_for_solver: the observations are its own still
C39_Witness ==
    /\ pc = "func" /\ submit.state = "running"
    /\ \E u \in Units :
         /\ obs[u] = {"own"} /\ ~data[u]
         /\ submit.at[u] >= 1
         /\ submit.list[1] = "prepare_data_for_solver"

\* check(), lines 97-99: every name of `kernels` is one the engine knows
KernelsAccepted ==
    Range(Split(kernels)) \subseteq {<<"Z", "Z">>, <<"T", "T">>, <<"R", "R">>}

\* a pass as the ordering sees it: a misfit evaluation by its force, an
\* adjoint simulation by its force and component
Shown(pass) == IF pass[1] = "misfit" THEN <<pass[1], pass[2]>> ELSE pass

\* the passes of generate_tt_rr_kernels when TT (tt) and RR (rr) are wanted
PassesWanted(tt, rr) ==
    << <<"misfit", "E">>, <<"misfit", "N">> >>
    \o (IF tt THEN << <<"adjoint", "E", "T">>, <<"adjoint", "N", "T">> >>
        ELSE <<>>)
    \o (IF rr THEN << <<"adjoint", "E", "R">>, <<"adjoint", "N", "R">> >>
        ELSE <<>>)

\* the passes generate_tt_rr_kernels has made are the first of those wanted,
\* and all of them when it is about to return
PassesInOrder ==
    (npc = "body" /\ nfunc = "generate_tt_rr_kernels") =>
        LET made == [k \in 1..Len(passes) |-> Shown(passes[k])]
            wanted == PassesWanted(Requested(<<"T", "T">>),
                                   Requested(<<"R", "R">>))
        IN  /\ Len(made) <= Len(wanted)
            /\ made = SubSeq(wanted, 1, Len(made))
            /\ sub = Len(Body(nfunc)) + 1 => made = wanted

C35_AdjointContextPair ==
    \A k \in 1..Len(passes) :
        passes[k][1] = "adjoint" =>
            <<passes[k][2], passes[k][3]>> \in
                { <<"Z", "Z">>, <<"N", "T">>, <<"E", "T">>,
                  <<"N", "R">>, <<"E", "R">> }

\* generate_zz_kernels was Complete and passed over; in the same run
\* generate_tt_rr_kernels, run again after a failure, has made an adjoint
\* simulation
C35_Witness ==
    /\ npc = "body" /\ ni = 2 /\ nfunc = "generate_tt_rr_kernels"
    /\ Get(nstates, "generate_zz_kernels") = Complete
    /\ Get(nstates, nfunc) = Failed
    /\ \E k \in 1..Len(passes) : passes[k][1] = "adjoint"


\* C33: unit isolation. What a unit of a pass writes is a path of its own,
\* the cwd of its solver or a path with its source name in it, so that no
\* file is written by two units of one pass.
C33_UnitIsolation ==
    /\ \A p \in wrote : \E k \in 1..Len(p[2]) : p[2][k] = p[1]
    /\ \A p \in wrote : \A q \in wrote : p[2] = q[2] => p[1] = q[1]

\* C36: E/N synchronisation. A unit rotates and preprocesses only with the
\* E and the N synthetics of the current call of generate_tt_rr_kernels;
\* while one of them is missing it only writes the dummy residuals file,
\* also when the task runs again after a failure.
C36_SynchronisedRotation ==
    \A u \in Units :
       did[u].force \in {"E", "N"} =>
          IF did[u].e = "new" /\ did[u].n = "new"
          THEN did[u].what = "rotate"
          ELSE did[u].what = "dummy"

\* C37: observed-data lookup. Force Z links the data of ZZ; forces N and E
\* link the data of RR iff RR is requested and the data of TT iff TT is
\* requested.
C37_ObservedDataLookup ==
    [][\A u \in Units :
          obs'[u] # obs[u] =>
             obs'[u] = IF _force = "Z" THEN {<<"Z", "Z">>}
                       ELSE {d \in {<<"R", "R">>, <<"T", "T">>} :
                                Requested(d)}]_vars

\* C38: adjoint-source symlink cleanup. When _run_adjoint_simulation_single
\* of force E or N begins, traces/adj holds no symlink of another pair,
\* also after a simulation has raised and the task is run again.
C38_AdjointLinksClean ==
    \A u \in Units :
       (NoiseUnitAt(u, "_run_adjoint_simulation_single")
            /\ _force \in {"E", "N"}) =>
          adj[u] \subseteq {<<_force, _cmpnt>>}

\* what initialize() has called when it has run to its end
se_calls(frequencies) ==
    <<"write_model">>
    \o (IF frequencies THEN <<"get_random_frequencies">> ELSE <<>>)
    \o <<"system.run", "returned", "write_misfit">>

\* C40: initialize() of the source-encoded inversion regenerates the
\* frequencies iff RANDOM_OVER_IT is set or the iteration is 1, after the
\* model is written and before the evaluation is dispatched, and writes the
\* misfit only after the dispatch has returned.
C40_EncodedFrequencies ==
    se.pc \in {"encoded", "running", "evaluated", "initialized"} =>
       LET wanted == se_calls(se.PAR["RANDOM_OVER_IT"] = 1 \/ se.iter = 1)
       IN  /\ se.calls = SubSeq(wanted, 1, Len(se.calls))
           /\ se.pc = "initialized" <=> Len(se.calls) = Len(wanted)

C40_Witness ==
    /\ se.pc = "initialized"
    /\ se.iter = 2
    /\ se.PAR["RANDOM_OVER_IT"] = 0
    /\ se.calls = <<"write_model", "system.run", "returned", "write_misfit">>

TypeOK ==
    /\ stop_after \in {None} \cup Tasks \cup UnknownNames
    /\ file_exists \in BOOLEAN
    /\ pc \in {"none", "idle", "loop", "func", "final", "done", "raised",
               "exited", "killed", "broken"}
    /\ i \in 0..(Len(task_list) + 1)
    /\ n \in 0..Len(task_list)
=============================================================================
